---------------------------- MODULE Spec2Model ----------------------------
(***************************************************************************)
(* Model of the weathermary maritime back end                              *)
(* (src/weatherfinal-master/BACKEND): the route planning estimator of      *)
(* app.py and the voyage leg simulator of simu_routes.py; and of the alert *)
(* store and the 10-day forecast of the weather back end (src/BACKEND).    *)
(*                                                                         *)
(* Number representation (TLC has 32-bit integers and no reals):           *)
(*   - coordinates are integers in units of 1e-5 degree;                   *)
(*   - distances are integers in hundredths of a nautical mile; the        *)
(*     haversine values are tabulated from the source formula for the      *)
(*     points the model uses;                                              *)
(*   - money is an exact non-negative rational held as whole dollars w     *)
(*     plus a fraction f / FracUnits;                                      *)
(*   - Python's round() of an amount takes the nearest integer; where the  *)
(*     exact amount lies halfway between two integers the binary float     *)
(*     the code holds is a hair above or below it, so either neighbour     *)
(*     can be reported and the model draws the direction.                  *)
(***************************************************************************)
EXTENDS Integers, Sequences, FiniteSets, Bags, TLC

VARIABLES
    plan_pc,         \* route-plan call: idle / received / done
    plan,            \* the route-plan request and its response: [req, code, body, trace]
    risk,            \* last direct call of assess_route_risks: [origin, dest, month, result]
    sim_pc,          \* position of simulate_route: idle / loop / done / error
    sim_req,         \* the simulation request being handled
    legs,            \* simulate_route: legs
    total_dist_nm,   \* simulate_route: total_dist_nm   (thousandths of nm)
    total_hours,     \* simulate_route: total_hours     (thousandths of an hour)
    total_fuel,      \* simulate_route: total_fuel      (numerator over FuelDen)
    current_time,    \* simulate_route: current_time    (hundredths of an hour since startTime)
    sim_resp,        \* response of simulate_route: [code, body]
    probe,           \* last direct evaluation of the cubic fuel law
    direct,          \* last direct call of calculate_eca_compliance or of the
                     \* fuel stop step of simulate_route: arguments and result
    alerts_csv,      \* src/BACKEND: text of datasets/alerts.csv, a header line and
                     \* one line per alert, each line a sequence of cells
    ack,             \* src/BACKEND: the acknowledge requests being handled, each
                     \* [pc, ids, df]
    ack_log          \* src/BACKEND: the id lists of the acknowledge requests answered

vars == <<plan_pc, plan, risk, sim_pc, sim_req, legs, total_dist_nm, total_hours,
          total_fuel, current_time, sim_resp, probe, direct,
          alerts_csv, ack, ack_log>>

planVars == <<plan_pc, plan>>
riskVars == <<risk>>
simVars == <<sim_pc, sim_req, legs, total_dist_nm, total_hours, total_fuel,
             current_time, sim_resp>>
probeVars == <<probe>>
directVars == <<direct>>
alertVars == <<alerts_csv, ack, ack_log>>

---------------------------------------------------------------------------
(* Arithmetic helpers *)

Abs(x) == IF x < 0 THEN -x ELSE x

Max(a, b) == IF a >= b THEN a ELSE b

Min(a, b) == IF a <= b THEN a ELSE b

\* math.ceil(n / d) for n >= 0, d > 0
CeilDiv(n, d) == (n + d - 1) \div d

\* Python round(n / d) for n >= 0, d > 0: nearest integer, ties to even
RoundHalfEven(n, d) ==
    LET q == n \div d
        r == n % d
    IN  IF 2 * r < d THEN q
        ELSE IF 2 * r > d THEN q + 1
        ELSE IF q % 2 = 0 THEN q ELSE q + 1

\* nearest integer to n / d for d > 0 (any sign of n); model resolution rounding
RoundDiv(n, d) == IF n >= 0 THEN (2 * n + d) \div (2 * d)
                  ELSE -((2 * (-n) + d) \div (2 * d))

RECURSIVE SumSeq(_)
SumSeq(s) == IF s = <<>> THEN 0 ELSE Head(s) + SumSeq(Tail(s))

\* the positions kept of a sequence, in the order of the sequence
Positions(s, kept) ==
    LET RECURSIVE Go(_)
        Go(i) == IF i > Len(s) THEN <<>>
                 ELSE IF i \in kept THEN <<i>> \o Go(i + 1)
                 ELSE Go(i + 1)
    IN  Go(1)

---------------------------------------------------------------------------
(* Money: exact amounts w + f / FracUnits dollars, 0 <= f < FracUnits *)

\* 2 (mean of two bunker prices) * 100 (efficiency factor) * 100 (weather factor)
FracUnits == 2 * 100 * 100

\* the amount n / d dollars, for n >= 0 and d a divisor of FracUnits
MoneyOf(n, d) == [w |-> n \div d, f |-> (n % d) * (FracUnits \div d)]

\* the amount t * p / FracUnits dollars, for t, p >= 0, without overflow
MoneyScaled(t, p) ==
    LET q == t \div FracUnits
        r == t % FracUnits
    IN  [w |-> q * p + (r * p) \div FracUnits, f |-> (r * p) % FracUnits]

MoneyAdd(a, b) ==
    [w |-> a.w + b.w + (a.f + b.f) \div FracUnits, f |-> (a.f + b.f) % FracUnits]

\* the exact amount lies halfway between two integers
IsTie(a) == 2 * a.f = FracUnits

\* Python round(x) of the float holding an amount; up decides an exact tie
MoneyRound(a, up) ==
    IF 2 * a.f < FracUnits THEN a.w
    ELSE IF 2 * a.f > FracUnits THEN a.w + 1
    ELSE IF up THEN a.w + 1 ELSE a.w

\* the amount a * pct / 100 as whole dollars q plus r / den
MoneyPct(a, pct) ==
    LET num == ((a.w * pct) % 100) * FracUnits + a.f * pct
        den == 100 * FracUnits
    IN  [q |-> (a.w * pct) \div 100 + num \div den, r |-> num % den, den |-> den]

IsTiePct(a, pct) == LET x == MoneyPct(a, pct) IN 2 * x.r = x.den

\* Python round(x * pct / 100); up decides an exact tie
MoneyRoundPct(a, pct, up) ==
    LET x == MoneyPct(a, pct)
    IN  IF 2 * x.r < x.den THEN x.q
        ELSE IF 2 * x.r > x.den THEN x.q + 1
        ELSE IF up THEN x.q + 1 ELSE x.q

---------------------------------------------------------------------------
(* Reference catalog of app.py *)

PortNames ==
    <<"Singapore", "Rotterdam", "Shanghai", "Hamburg", "Los Angeles", "Dubai",
      "Hong Kong", "Antwerp", "Long Beach", "Busan", "Tokyo", "Mumbai",
      "Felixstowe", "Valencia">>

\* lat, lng in 1e-5 degree; port_cost_per_ton in hundredths of a dollar
MAJOR_PORTS ==
    "Singapore" :> [lat |-> 135210, lng |-> 10381980, bunker_price |-> 680, port_cost_x100 |-> 80] @@
    "Rotterdam" :> [lat |-> 5192250, lng |-> 447920, bunker_price |-> 650, port_cost_x100 |-> 90] @@
    "Shanghai" :> [lat |-> 3123040, lng |-> 12147370, bunker_price |-> 670, port_cost_x100 |-> 70] @@
    "Hamburg" :> [lat |-> 5355110, lng |-> 999370, bunker_price |-> 660, port_cost_x100 |-> 85] @@
    "Los Angeles" :> [lat |-> 3374850, lng |-> -11824360, bunker_price |-> 720, port_cost_x100 |-> 100] @@
    "Dubai" :> [lat |-> 2525320, lng |-> 5536570, bunker_price |-> 640, port_cost_x100 |-> 75] @@
    "Hong Kong" :> [lat |-> 2231930, lng |-> 11416940, bunker_price |-> 675, port_cost_x100 |-> 80] @@
    "Antwerp" :> [lat |-> 5121940, lng |-> 440250, bunker_price |-> 655, port_cost_x100 |-> 90] @@
    "Long Beach" :> [lat |-> 3377010, lng |-> -11819370, bunker_price |-> 715, port_cost_x100 |-> 100] @@
    "Busan" :> [lat |-> 3517960, lng |-> 12907560, bunker_price |-> 690, port_cost_x100 |-> 80] @@
    "Tokyo" :> [lat |-> 3561620, lng |-> 13974310, bunker_price |-> 700, port_cost_x100 |-> 90] @@
    "Mumbai" :> [lat |-> 1907600, lng |-> 7287770, bunker_price |-> 635, port_cost_x100 |-> 60] @@
    "Felixstowe" :> [lat |-> 5195420, lng |-> 135090, bunker_price |-> 665, port_cost_x100 |-> 85] @@
    "Valencia" :> [lat |-> 3946990, lng |-> -37630, bunker_price |-> 645, port_cost_x100 |-> 80]

\* fuel_efficiency_factor in hundredths
SHIP_TYPES ==
    "container" :> [name |-> "Container Ship", fuel_rate_tons_per_day |-> 250,
                    avg_speed_knots |-> 22, fuel_efficiency_x100 |-> 100] @@
    "bulk" :> [name |-> "Bulk Carrier", fuel_rate_tons_per_day |-> 180,
               avg_speed_knots |-> 14, fuel_efficiency_x100 |-> 90] @@
    "tanker" :> [name |-> "Oil Tanker", fuel_rate_tons_per_day |-> 200,
                 avg_speed_knots |-> 16, fuel_efficiency_x100 |-> 95] @@
    "general" :> [name |-> "General Cargo", fuel_rate_tons_per_day |-> 120,
                  avg_speed_knots |-> 18, fuel_efficiency_x100 |-> 110] @@
    "roro" :> [name |-> "RoRo Vessel", fuel_rate_tons_per_day |-> 160,
               avg_speed_knots |-> 20, fuel_efficiency_x100 |-> 105]

EcaZoneNames == <<"North American ECA", "North Sea ECA", "Baltic Sea ECA">>

ECA_ZONES ==
    "North American ECA" :>
        [bounds |-> [lat_min |-> 2500000, lat_max |-> 5000000,
                     lng_min |-> -13000000, lng_max |-> -6500000]] @@
    "North Sea ECA" :>
        [bounds |-> [lat_min |-> 5100000, lat_max |-> 6200000,
                     lng_min |-> -500000, lng_max |-> 1200000]] @@
    "Baltic Sea ECA" :>
        [bounds |-> [lat_min |-> 5350000, lat_max |-> 6600000,
                     lng_min |-> 1000000, lng_max |-> 3000000]]

PiracyZoneNames == <<"Gulf of Aden", "West Africa", "Strait of Malacca">>

PIRACY_ZONES ==
    "Gulf of Aden" :>
        [bounds |-> [lat_min |-> 1000000, lat_max |-> 1800000,
                     lng_min |-> 4200000, lng_max |-> 5200000],
         risk_level |-> "HIGH"] @@
    "West Africa" :>
        [bounds |-> [lat_min |-> -500000, lat_max |-> 1000000,
                     lng_min |-> -1000000, lng_max |-> 800000],
         risk_level |-> "HIGH"] @@
    "Strait of Malacca" :>
        [bounds |-> [lat_min |-> 100000, lat_max |-> 600000,
                     lng_min |-> 10000000, lng_max |-> 10500000],
         risk_level |-> "MEDIUM"]


---------------------------------------------------------------------------
(* Utility functions of app.py *)

PortIndex(name) == CHOOSE i \in 1..Len(PortNames) : PortNames[i] = name

\* calculate_great_circle_distance evaluated on the catalog coordinates of the
\* row port and the column port (order of PortNames), in hundredths of nm
PortDistanceCnm ==
    <<
      <<0, 568430, 205494, 547469, 763463, 314789, 139640, 569316, 763602, 247265, 286921, 210787, 579820, 600620>>,
      <<568430, 0, 482028, 22296, 485048, 279494, 503583, 4231, 484806, 482536, 505121, 371325, 11580, 77444>>,
      <<205494, 482028, 0, 460161, 564633, 346406, 66254, 484931, 564730, 44930, 95098, 271728, 490709, 546813>>,
      <<547469, 22296, 460161, 0, 491650, 263533, 481288, 24804, 491418, 461442, 485221, 352723, 32815, 94557>>,
      <<763463, 485048, 564633, 491650, 0, 724607, 630205, 487824, 281, 520395, 477112, 757240, 476552, 522082>>,
      <<314789, 279494, 346406, 263533, 724607, 0, 320974, 278715, 724449, 378579, 428137, 104080, 290800, 290464>>,
      <<139640, 503583, 66254, 481288, 630205, 320974, 0, 505874, 630309, 109824, 155538, 232034, 513513, 559381>>,
      <<569316, 4231, 484931, 24804, 487824, 278715, 505874, 0, 487581, 485820, 508740, 371280, 12208, 73330>>,
      <<763602, 484806, 564730, 491418, 281, 724449, 630309, 487581, 0, 520498, 477237, 757170, 476308, 521817>>,
      <<247265, 482536, 44930, 461442, 520395, 378579, 109824, 485820, 520498, 0, 52249, 311171, 490130, 552301>>,
      <<286921, 505121, 95098, 485221, 477112, 428137, 155538, 508740, 477237, 52249, 0, 363340, 511431, 578762>>,
      <<210787, 371325, 271728, 352723, 757240, 104080, 232034, 371280, 757170, 311171, 363340, 0, 382894, 392028>>,
      <<579820, 11580, 490709, 32815, 476552, 290800, 513513, 12208, 476308, 490130, 511431, 382894, 0, 75300>>,
      <<600620, 77444, 546813, 94557, 522082, 290464, 559381, 73330, 521817, 552301, 578762, 392028, 75300, 0>>
    >>

calculate_great_circle_distance(origin, destination) ==
    PortDistanceCnm[PortIndex(origin)][PortIndex(destination)]

\* variant: a point on the edge of the box counts as outside
is_point_in_zone_Exclusive(lat, lng, zone_bounds) ==
    /\ zone_bounds.lat_min < lat /\ lat < zone_bounds.lat_max
    /\ zone_bounds.lng_min < lng /\ lng < zone_bounds.lng_max

is_point_in_zone(lat, lng, zone_bounds) ==
    /\ zone_bounds.lat_min <= lat /\ lat <= zone_bounds.lat_max
    /\ zone_bounds.lng_min <= lng /\ lng <= zone_bounds.lng_max

\* either endpoint inside the zone (the test of both zone loops)
EndpointInZone(origin_coords, dest_coords, zone_bounds) ==
    \/ is_point_in_zone(origin_coords.lat, origin_coords.lng, zone_bounds)
    \/ is_point_in_zone(dest_coords.lat, dest_coords.lng, zone_bounds)

BaselineRecommendation == "Monitor weather updates every 6 hours"

\* the strings one finding of the given type appends, in the order of the source
RecommendationsFor(type) ==
    IF type = "Piracy Risk" THEN
        <<"Follow BMP5 guidelines for piracy prevention",
          "Increase watch vigilance in high-risk areas",
          "Consider naval escort if available">>
    ELSE IF type = "Seasonal Weather" THEN
        <<"Plan flexible departure window",
          "Increase fuel reserves for weather delays",
          "Monitor tropical weather forecasts">>
    ELSE IF type = "Port Congestion" THEN
        <<"Confirm berth availability before arrival",
          "Plan for potential anchor waiting time">>
    ELSE <<>>

\* the list before deduplication: the baseline, then one extend per finding
RECURSIVE CollectRecommendations(_)
CollectRecommendations(risks) ==
    IF risks = <<>> THEN <<BaselineRecommendation>>
    ELSE CollectRecommendations(SubSeq(risks, 1, Len(risks) - 1))
             \o RecommendationsFor(risks[Len(risks)].type)

\* a list as the bag of its entries: the order of list(set(...)) follows the
\* string hashes of the run and is not modelled, the number of copies is
BagOfList(list) ==
    [e \in {list[i] : i \in DOMAIN list} |->
        Cardinality({i \in DOMAIN list : list[i] = e})]

\* variant: the collected list returned as it is
generate_risk_recommendations_NoDedup(risks) ==
    BagOfList(CollectRecommendations(risks))

\* list(set(recommendations))
generate_risk_recommendations(risks) ==
    LET collected == CollectRecommendations(risks)
    IN  SetToBag({collected[i] : i \in DOMAIN collected})

busy_ports == {"Singapore", "Shanghai", "Rotterdam", "Los Angeles"}

\* next((name ... if abs(coords["lat"] - lat) < 0.1), "Unknown")
PortNameNearLatitude(lat) ==
    LET hits == Positions(PortNames,
                    {i \in DOMAIN PortNames :
                        Abs(MAJOR_PORTS[PortNames[i]].lat - lat) < 10000})
    IN  IF hits = <<>> THEN "Unknown" ELSE PortNames[hits[1]]

\* variants of the score increment: every zone counted as an ordinary one,
\* and every zone counted as a HIGH one
PiracyIncrement_Low(risk_level) == 20

PiracyIncrement_Flat(risk_level) == 35

PiracyIncrement(risk_level) == IF risk_level = "HIGH" THEN 35 ELSE 20

\* variant: HIGH only above 50
OverallRisk_StrictHigh(risk_score) ==
    IF risk_score > 50 THEN "HIGH"
    ELSE IF risk_score >= 25 THEN "MEDIUM"
    ELSE "LOW"

OverallRisk(risk_score) ==
    IF risk_score >= 50 THEN "HIGH"
    ELSE IF risk_score >= 25 THEN "MEDIUM"
    ELSE "LOW"

\* month is datetime.fromisoformat(departure_date).month
assess_route_risks(origin_coords, dest_coords, month) ==
    LET hit == Positions(PiracyZoneNames,
                   {i \in DOMAIN PiracyZoneNames :
                       EndpointInZone(origin_coords, dest_coords,
                                      PIRACY_ZONES[PiracyZoneNames[i]].bounds)})
        piracy == [i \in 1..Len(hit) |->
                     [type |-> "Piracy Risk",
                      level |-> PIRACY_ZONES[PiracyZoneNames[hit[i]]].risk_level,
                      zone |-> PiracyZoneNames[hit[i]],
                      ports |-> <<>>]]
        score1 == SumSeq([i \in 1..Len(hit) |->
                     PiracyIncrement(PIRACY_ZONES[PiracyZoneNames[hit[i]]].risk_level)])
        seasonal == month \in {6, 7, 8, 9, 10}
        risks2 == IF seasonal
                  THEN Append(piracy, [type |-> "Seasonal Weather", level |-> "MEDIUM",
                                       zone |-> "", ports |-> <<>>])
                  ELSE piracy
        score2 == IF seasonal THEN score1 + 20 ELSE score1
        variation == Abs(origin_coords.lat - dest_coords.lat) > 4000000
        risks3 == IF variation
                  THEN Append(risks2, [type |-> "Weather Variation", level |-> "MEDIUM",
                                       zone |-> "", ports |-> <<>>])
                  ELSE risks2
        score3 == IF variation THEN score2 + 15 ELSE score2
        origin_name == PortNameNearLatitude(origin_coords.lat)
        dest_name == PortNameNearLatitude(dest_coords.lat)
        congested == origin_name \in busy_ports \/ dest_name \in busy_ports
        risks4 == IF congested
                  THEN Append(risks3, [type |-> "Port Congestion", level |-> "LOW",
                                       zone |-> "", ports |-> <<origin_name, dest_name>>])
                  ELSE risks3
        risk_score == IF congested THEN score3 + 10 ELSE score3
    IN  [overall_risk |-> OverallRisk(risk_score),
         risk_score |-> Min(risk_score, 100),
         individual_risks |-> risks4,
         recommendations |-> generate_risk_recommendations(risks4)]

calculate_eca_compliance(origin_coords, dest_coords) ==
    LET hit == Positions(EcaZoneNames,
                   {i \in DOMAIN EcaZoneNames :
                       EndpointInZone(origin_coords, dest_coords,
                                      ECA_ZONES[EcaZoneNames[i]].bounds)})
        eca_zones_crossed == [i \in 1..Len(hit) |-> EcaZoneNames[hit[i]]]
    IN  [eca_zones_crossed |-> eca_zones_crossed,
         compliance_costs |-> Len(eca_zones_crossed) * 15000]

\* variant: range(num_waypoints), the destination left out
generate_route_coordinates_NoEndpoint(origin_coords, dest_coords, inexact) ==
    [k \in 1..10 |->
        [lat |-> origin_coords.lat * 10 + (dest_coords.lat - origin_coords.lat) * (k - 1),
         lng |-> origin_coords.lng * 10 + (dest_coords.lng - origin_coords.lng) * (k - 1),
         waypoint_id |-> k - 1,
         inexact |-> FALSE]]

\* waypoint coordinates in 1e-6 degree (ratio = i / num_waypoints, num_waypoints = 10).
\* The source evaluates origin + (dest - origin) * ratio in binary floating
\* point: at ratio 0.0 the result is the origin itself, at ratio 1.0 the sum
\* origin + (dest - origin) is rounded and need not be the destination. A
\* waypoint is inexact when its float value is not the decimal value written
\* here; the last waypoint is so when the run draws it. The waypoints between
\* are carried as their decimal values.
generate_route_coordinates(origin_coords, dest_coords, inexact) ==
    [k \in 1..11 |->
        [lat |-> origin_coords.lat * 10 + (dest_coords.lat - origin_coords.lat) * (k - 1),
         lng |-> origin_coords.lng * 10 + (dest_coords.lng - origin_coords.lng) * (k - 1),
         waypoint_id |-> k - 1,
         inexact |-> (k = 11 /\ inexact)]]

\* distance_x1e4 is the distance in 1e-4 nm (<= 9e7), daily_x100 the daily
\* consumption in hundredths of a ton: distance <= (capacity / daily) * 24 * 14
WithinRange(distance_x1e4, fuel_capacity_tons, daily_x100) ==
    LET n1 == (distance_x1e4 \div 10000) * daily_x100
        n0 == (distance_x1e4 % 10000) * daily_x100
    IN  n1 + CeilDiv(n0, 10000) <= fuel_capacity_tons * 24 * 14 * 100

\* variant: a stop for every route beyond the range, long or not
calculate_fuel_stops_NoLongRouteTest(distance_x1e4, fuel_capacity_tons, daily_x100) ==
    IF WithinRange(distance_x1e4, fuel_capacity_tons, daily_x100) THEN <<>>
    ELSE << [port_name |-> "Fujairah", fuel_needed_tons |-> 800,
             fuel_price_per_ton |-> 645, estimated_cost |-> 800 * 645,
             distance_from_origin |-> 4500] >>

calculate_fuel_stops(distance_x1e4, fuel_capacity_tons, daily_x100) ==
    IF WithinRange(distance_x1e4, fuel_capacity_tons, daily_x100) THEN <<>>
    ELSE IF distance_x1e4 > 7000 * 10000
    THEN << [port_name |-> "Fujairah", fuel_needed_tons |-> 800,
             fuel_price_per_ton |-> 645, estimated_cost |-> 800 * 645,
             distance_from_origin |-> 4500] >>
    ELSE <<>>


---------------------------------------------------------------------------
(* Route planning endpoint of app.py *)

\* the letters of the port names and of the words of the canal heuristic
Spelling ==
    "Singapore" :> <<"S", "i", "n", "g", "a", "p", "o", "r", "e">> @@
    "Rotterdam" :> <<"R", "o", "t", "t", "e", "r", "d", "a", "m">> @@
    "Shanghai" :> <<"S", "h", "a", "n", "g", "h", "a", "i">> @@
    "Hamburg" :> <<"H", "a", "m", "b", "u", "r", "g">> @@
    "Los Angeles" :> <<"L", "o", "s", " ", "A", "n", "g", "e", "l", "e", "s">> @@
    "Dubai" :> <<"D", "u", "b", "a", "i">> @@
    "Hong Kong" :> <<"H", "o", "n", "g", " ", "K", "o", "n", "g">> @@
    "Antwerp" :> <<"A", "n", "t", "w", "e", "r", "p">> @@
    "Long Beach" :> <<"L", "o", "n", "g", " ", "B", "e", "a", "c", "h">> @@
    "Busan" :> <<"B", "u", "s", "a", "n">> @@
    "Tokyo" :> <<"T", "o", "k", "y", "o">> @@
    "Mumbai" :> <<"M", "u", "m", "b", "a", "i">> @@
    "Felixstowe" :> <<"F", "e", "l", "i", "x", "s", "t", "o", "w", "e">> @@
    "Valencia" :> <<"V", "a", "l", "e", "n", "c", "i", "a">> @@
    "Middle East" :> <<"M", "i", "d", "d", "l", "e", " ", "E", "a", "s", "t">> @@
    "Asia" :> <<"A", "s", "i", "a">> @@
    "Europe" :> <<"E", "u", "r", "o", "p", "e">>

\* needle in haystack of Python, on sequences of letters
IsSubstring(needle, haystack) ==
    \E k \in 0..(Len(haystack) - Len(needle)) :
        \A j \in 1..Len(needle) : haystack[k + j] = needle[j]

\* line 425: route_key = f"{origin}-{destination}"
RouteKey(origin, destination) ==
    Spelling[origin] \o <<"-">> \o Spelling[destination]

\* any(x in route_key for x in words)
RouteKeyHasAny(origin, destination, words) ==
    \E w \in words : IsSubstring(Spelling[w], RouteKey(origin, destination))

GatewayPorts == {"Singapore", "Rotterdam", "Hamburg", "Antwerp"}

CorridorWords == {"Middle East", "Asia", "Europe"}

\* variant: the surcharge for every route through a gateway port
CanalRoutes_GatewayOnly ==
    {od \in (DOMAIN MAJOR_PORTS) \X (DOMAIN MAJOR_PORTS) :
        RouteKeyHasAny(od[1], od[2], GatewayPorts)}

\* lines 426-427: the pairs of configured ports that pass both tests
CanalRoutes ==
    {od \in (DOMAIN MAJOR_PORTS) \X (DOMAIN MAJOR_PORTS) :
        /\ RouteKeyHasAny(od[1], od[2], GatewayPorts)
        /\ RouteKeyHasAny(od[1], od[2], CorridorWords)}

CanalApplies(origin, destination) == <<origin, destination>> \in CanalRoutes

\* variant: October counted into the storm season, as the risk assessor does
WeatherFactor_OctoberStorm(weather_optimized, month) ==
    IF weather_optimized THEN 95
    ELSE IF month \in {11, 12, 1, 2, 3} THEN 115
    ELSE IF month \in {6, 7, 8, 9, 10} THEN 110
    ELSE 100

\* weather_factor in hundredths; month is read only when not weather_optimized
WeatherFactor(weather_optimized, month) ==
    IF weather_optimized THEN 95
    ELSE IF month \in {11, 12, 1, 2, 3} THEN 115
    ELSE IF month \in {6, 7, 8, 9} THEN 110
    ELSE 100

\* the six cost terms and their unrounded sum, as exact amounts
CostTerms(o, d, ship_spec, deadweight, cargo_value, voyage_days, weather_factor, canal_cost, compliance_costs) ==
    LET daily_x100 == ship_spec.fuel_rate_tons_per_day * ship_spec.fuel_efficiency_x100
        total_fuel_x1e4 == voyage_days * daily_x100 * weather_factor
        fuel_cost == MoneyScaled(total_fuel_x1e4, o.bunker_price + d.bunker_price)
        total_port_costs ==
            MoneyAdd(MoneyOf(deadweight * o.port_cost_x100 + 25000 * 100, 100),
                     MoneyOf(deadweight * d.port_cost_x100 + 25000 * 100, 100))
        insurance_cost == MoneyOf(cargo_value, 1000)
        other_costs == 50000
        total_cost ==
            MoneyAdd(MoneyAdd(MoneyAdd(MoneyAdd(MoneyAdd(
                fuel_cost, total_port_costs), MoneyOf(canal_cost, 1)),
                insurance_cost), MoneyOf(other_costs, 1)), MoneyOf(compliance_costs, 1))
    IN  [total_fuel_x1e4 |-> total_fuel_x1e4,
         fuel_cost |-> fuel_cost,
         total_port_costs |-> total_port_costs,
         insurance_cost |-> insurance_cost,
         other_costs |-> other_costs,
         total_cost |-> total_cost]

\* the "cost_breakdown" object of the response; ties is the set of rounded
\* fields whose exact tie goes up
CostBreakdown(terms, canal_cost, canal_name, compliance_costs, ties) ==
    [fuel_cost |-> MoneyRound(terms.fuel_cost, "fuel_cost" \in ties),
     port_cost |-> MoneyRound(terms.total_port_costs, "port_cost" \in ties),
     canal_cost |-> canal_cost,
     canal_name |-> canal_name,
     insurance_cost |-> MoneyRound(terms.insurance_cost, "insurance_cost" \in ties),
     compliance_cost |-> compliance_costs,
     other_costs |-> terms.other_costs,
     total_cost |-> MoneyRound(terms.total_cost, "total_cost" \in ties)]

\* variant: the two surcharges exchanged
AltCostFactor_Swapped(overall_risk) == IF overall_risk = "HIGH" THEN 108 ELSE 112

AltCostFactor(overall_risk) == IF overall_risk = "HIGH" THEN 112 ELSE 108

AlternateRoutes(total_cost, voyage_days, overall_risk, weather_optimized, ties) ==
    LET alt_cost_factor == AltCostFactor(overall_risk)
        safety == [name |-> "Safety Route", type |-> "alternate",
                   cost |-> MoneyRoundPct(total_cost, alt_cost_factor,
                                          "safety_cost" \in ties),
                   days |-> voyage_days + 2, risk_level |-> "LOW"]
        weather == [name |-> "Weather Optimized", type |-> "weather",
                    cost |-> MoneyRoundPct(total_cost, 95, "weather_cost" \in ties),
                    days |-> voyage_days - 1, risk_level |-> "MEDIUM"]
    IN  IF weather_optimized THEN <<safety>> ELSE <<safety, weather>>

\* the rounded fields whose exact amount is a tie
TieFields(terms) ==
    {x \in {"fuel_cost"} : IsTie(terms.fuel_cost)}
    \cup {x \in {"port_cost"} : IsTie(terms.total_port_costs)}
    \cup {x \in {"insurance_cost"} : IsTie(terms.insurance_cost)}
    \cup {x \in {"total_cost"} : IsTie(terms.total_cost)}
    \cup {x \in {"safety_cost"} :
             \E overall_risk \in {"HIGH", "LOW"} :
               IsTiePct(terms.total_cost, AltCostFactor(overall_risk))}
    \cup {x \in {"weather_cost"} : IsTiePct(terms.total_cost, 95)}

\* variant: an error body that also carries an empty partial result
ErrorResponse_WithPartial(code, message, trace) ==
    [code |-> code,
     body |-> [error |-> message, alternate_routes |-> <<>>],
     trace |-> trace]

ErrorResponse(code, message, trace) ==
    [code |-> code, body |-> [error |-> message], trace |-> trace]

\* req.month = 0 stands for a departure_date that fromisoformat rejects.
\* trace lists the stages the handler completed before it returned.
\* ties is the set of rounded fields whose exact tie goes up, with
\* "last_waypoint" in it when the float sum of the last waypoint is inexact.
maritime_route_plan(req, ties) ==
    IF req.origin \notin DOMAIN MAJOR_PORTS \/ req.destination \notin DOMAIN MAJOR_PORTS
    THEN ErrorResponse(400, "Invalid port selection", <<>>)
    ELSE IF req.ship_type \notin DOMAIN SHIP_TYPES
    THEN ErrorResponse(400, "Invalid ship type", <<>>)
    ELSE
    LET origin_coords == MAJOR_PORTS[req.origin]
        dest_coords == MAJOR_PORTS[req.destination]
        ship_spec == SHIP_TYPES[req.ship_type]
        base_distance == calculate_great_circle_distance(req.origin, req.destination)
        actual_x1e4 == base_distance * 115
        avg_speed == ship_spec.avg_speed_knots
        voyage_days == CeilDiv(actual_x1e4, avg_speed * 24 * 10000)
        daily_x100 == ship_spec.fuel_rate_tons_per_day * ship_spec.fuel_efficiency_x100
    IN  IF ~req.weather_optimized /\ req.month = 0
        THEN ErrorResponse(500, "Route planning failed", <<"distance">>)
        ELSE
        LET weather_factor == WeatherFactor(req.weather_optimized, req.month)
            canal == CanalApplies(req.origin, req.destination)
            canal_cost == IF canal THEN 222865 ELSE 0
            canal_name == IF canal THEN "Suez Canal" ELSE "None"
            eca_compliance == calculate_eca_compliance(origin_coords, dest_coords)
            compliance_costs == eca_compliance.compliance_costs
            terms == CostTerms(origin_coords, dest_coords, ship_spec, req.deadweight,
                               req.cargo_value, voyage_days, weather_factor,
                               canal_cost, compliance_costs)
        IN  IF req.month = 0
            THEN ErrorResponse(500, "Route planning failed",
                               <<"distance", "weather", "cost">>)
            ELSE
            LET risk_assessment ==
                    assess_route_risks(origin_coords, dest_coords, req.month)
                fuel_stops == calculate_fuel_stops(actual_x1e4, req.bunker_on_board,
                                                   daily_x100)
                main_route_coords ==
                    generate_route_coordinates(origin_coords, dest_coords,
                                               "last_waypoint" \in ties)
                alternate_routes ==
                    AlternateRoutes(terms.total_cost, voyage_days,
                                    risk_assessment.overall_risk,
                                    req.weather_optimized, ties)
            IN  [code |-> 200,
                 body |->
                   [route_summary |->
                      [origin |-> req.origin, destination |-> req.destination,
                       distance_nm |-> RoundHalfEven(actual_x1e4, 10000),
                       voyage_days |-> voyage_days, avg_speed_knots |-> avg_speed],
                    fuel_analysis |->
                      [weather_factor |-> weather_factor,
                       fuel_stops_required |-> Len(fuel_stops),
                       fuel_stops |-> fuel_stops],
                    cost_breakdown |->
                      CostBreakdown(terms, canal_cost, canal_name, compliance_costs,
                                    ties),
                    risk_assessment |-> risk_assessment,
                    regulatory_compliance |-> eca_compliance,
                    main_route |->
                      [coordinates |-> main_route_coords, type |-> "main",
                       cost |-> MoneyRound(terms.total_cost, "total_cost" \in ties),
                       days |-> voyage_days,
                       risk_level |-> risk_assessment.overall_risk],
                    alternate_routes |-> alternate_routes],
                 trace |-> <<"distance", "weather", "cost", "risk", "fuel_stops",
                             "waypoints", "alternates">>]

\* request values the model draws
PortInputs == {PortNames[i] : i \in 1..Len(PortNames)} \cup {"Atlantis"}
ShipInputs == DOMAIN SHIP_TYPES \cup {"submarine"}
MonthInputs == 0..12
\* deadweight (tons), cargo value (dollars) and bunker on board (tons)
LoadInputs ==
    { [deadweight |-> 50000, cargo_value |-> 2500000, bunker_on_board |-> 500],
      [deadweight |-> 50002, cargo_value |-> 2500400, bunker_on_board |-> 500],
      [deadweight |-> 50001, cargo_value |-> 2500000, bunker_on_board |-> 4000] }

PlanRequests ==
    { [origin |-> o, destination |-> d, ship_type |-> t,
       deadweight |-> l.deadweight, cargo_value |-> l.cargo_value,
       bunker_on_board |-> l.bunker_on_board, month |-> m,
       weather_optimized |-> wo] :
        o \in PortInputs, d \in PortInputs, t \in ShipInputs, l \in LoadInputs,
        m \in MonthInputs, wo \in BOOLEAN }

\* the cost terms of a request that passes validation
PlanTerms(req) ==
    LET origin_coords == MAJOR_PORTS[req.origin]
        dest_coords == MAJOR_PORTS[req.destination]
        ship_spec == SHIP_TYPES[req.ship_type]
        base_distance == calculate_great_circle_distance(req.origin, req.destination)
        voyage_days == CeilDiv(base_distance * 115,
                               ship_spec.avg_speed_knots * 24 * 10000)
    IN  CostTerms(origin_coords, dest_coords, ship_spec, req.deadweight,
                  req.cargo_value, voyage_days,
                  WeatherFactor(req.weather_optimized, req.month),
                  IF CanalApplies(req.origin, req.destination) THEN 222865 ELSE 0,
                  calculate_eca_compliance(origin_coords, dest_coords).compliance_costs)

\* the float sum origin + (dest - origin) is exact when the difference is 0
\* and can be inexact otherwise
FloatFields(req) ==
    IF /\ MAJOR_PORTS[req.origin].lat = MAJOR_PORTS[req.destination].lat
       /\ MAJOR_PORTS[req.origin].lng = MAJOR_PORTS[req.destination].lng
    THEN {}
    ELSE {"last_waypoint"}

\* the directions a run of the handler can take at its exact ties
TieDraws(req) ==
    IF /\ req.origin \in DOMAIN MAJOR_PORTS
       /\ req.destination \in DOMAIN MAJOR_PORTS
       /\ req.ship_type \in DOMAIN SHIP_TYPES
       /\ req.month # 0
    THEN SUBSET (TieFields(PlanTerms(req)) \cup FloatFields(req))
    ELSE {{}}

NoPlan == [req |-> "none", code |-> 0, body |-> [none |-> TRUE], trace |-> <<>>]

\* a POST /api/maritime/route-plan request arrives (the handler keeps no
\* state between calls, so a behaviour holds one call)
PlanReceive ==
    /\ plan_pc = "idle"
    /\ \E req \in PlanRequests :
          plan' = [req |-> req, code |-> 0, body |-> [none |-> TRUE], trace |-> <<>>]
    /\ plan_pc' = "received"
    /\ UNCHANGED <<riskVars, simVars, probeVars, directVars, alertVars>>

\* the handler answers the request
PlanRoute ==
    /\ plan_pc = "received"
    /\ \E ties \in TieDraws(plan.req) :
          LET r == maritime_route_plan(plan.req, ties)
          IN  plan' = [req |-> plan.req, code |-> r.code, body |-> r.body,
                       trace |-> r.trace]
    /\ plan_pc' = "done"
    /\ UNCHANGED <<riskVars, simVars, probeVars, directVars, alertVars>>

---------------------------------------------------------------------------
(* Direct calls of assess_route_risks on arbitrary coordinates *)

\* catalog ports and open-sea points (1e-5 degree): inside each piracy zone,
\* on a zone corner, and far to the south
RiskPoints ==
    {[lat |-> MAJOR_PORTS[n].lat, lng |-> MAJOR_PORTS[n].lng] :
        n \in {"Singapore", "Rotterdam", "Dubai", "Mumbai", "Valencia", "Felixstowe"}}
    \cup {[lat |-> 1200000, lng |-> 4500000],      \* Gulf of Aden
          [lat |-> 1000000, lng |-> 4200000],      \* Gulf of Aden, corner
          [lat |-> 135000, lng |-> 0],             \* West Africa, Singapore's latitude
          [lat |-> 500000, lng |-> 300000],        \* West Africa
          [lat |-> 300000, lng |-> 10100000],      \* Strait of Malacca
          [lat |-> 2000000, lng |-> 6000000],      \* Arabian Sea
          [lat |-> -4500000, lng |-> 2000000]}     \* Southern Ocean

NoRisk == [origin |-> "none", dest |-> "none", month |-> 0, result |-> "none"]

AssessRisks ==
    /\ risk.month = 0
    /\ \E o \in RiskPoints, d \in RiskPoints, m \in 1..12 :
          risk' = [origin |-> o, dest |-> d, month |-> m,
                   result |-> assess_route_risks(o, d, m)]
    /\ UNCHANGED <<planVars, simVars, probeVars, directVars, alertVars>>


---------------------------------------------------------------------------
(* Voyage leg simulator of simu_routes.py *)

BunkeringPortNames == <<"Singapore", "Rotterdam", "Fujairah", "Gibraltar">>

BUNKERING_PORTS ==
    "Singapore" :> [bunker_price |-> 680] @@
    "Rotterdam" :> [bunker_price |-> 650] @@
    "Fujairah" :> [bunker_price |-> 645] @@
    "Gibraltar" :> [bunker_price |-> 660]

SIM_SHIP_TYPES ==
    "container" :> [name |-> "Container Ship", fuel_rate_tons_per_day |-> 45,
                    avg_speed_knots |-> 18, fuel_capacity_tons |-> 5000] @@
    "bulk" :> [name |-> "Bulk Carrier", fuel_rate_tons_per_day |-> 35,
               avg_speed_knots |-> 14, fuel_capacity_tons |-> 4000] @@
    "tanker" :> [name |-> "Oil Tanker", fuel_rate_tons_per_day |-> 40,
                 avg_speed_knots |-> 15, fuel_capacity_tons |-> 4500]

\* waypoints the model draws, [lat, lng] in 1e-5 degree
WpA == [lat |-> 0, lng |-> 0]
WpB == [lat |-> 0, lng |-> 10000]
WpC == [lat |-> 10000, lng |-> 10000]
WaypointInputs == {WpA, WpC}

\* calculate_distance evaluated on the points WpA, WpB, WpC, in thousandths
\* of nm
calculate_distance(from_wp, to_wp) ==
    IF from_wp = to_wp THEN 0
    ELSE IF {from_wp, to_wp} = {WpA, WpC} THEN 8491
    ELSE 6004

\* float('inf')
Infinity == 2147483647

\* variant: an override stays in force on the legs after its own
CommandedSpeed_CarriedForward(speed_adjustments, i, stw) ==
    LET hits == Positions(speed_adjustments,
                    {k \in DOMAIN speed_adjustments :
                        speed_adjustments[k].legIndex <= i})
    IN  IF hits = <<>> THEN stw ELSE speed_adjustments[hits[1]].newStw

\* lines 82-86: the first adjustment whose legIndex is i overrides stw (knots)
CommandedSpeed(speed_adjustments, i, stw) ==
    LET hits == Positions(speed_adjustments,
                    {k \in DOMAIN speed_adjustments :
                        speed_adjustments[k].legIndex = i})
    IN  IF hits = <<>> THEN stw ELSE speed_adjustments[hits[1]].newStw

\* lines 92: speed through water after wind and waves, tenths of a knot
EffectiveStw(current_stw, wind_effect, wave_effect) ==
    current_stw * 10 + wind_effect + wave_effect

\* variants of the floor: no floor at all, and a floor for negative speeds only
SpeedOverGround_NoFloor(stw_effective, current_effect) ==
    stw_effective + current_effect

SpeedOverGround_FloorNegativeOnly(stw_effective, current_effect) ==
    LET sog == stw_effective + current_effect
    IN  IF sog < 0 THEN 10 ELSE sog

\* lines 93-96: speed over ground with its floor of 1.0 knot, tenths of a knot
SpeedOverGround(stw_effective, current_effect) ==
    LET sog == stw_effective + current_effect
    IN  IF sog < 10 THEN 10 ELSE sog

\* line 98: hours = nm / knots, in thousandths of an hour
LegHours(dist_nm, sog) ==
    IF sog > 0 THEN RoundDiv(dist_nm * 10, sog) ELSE Infinity

\* lines 101-109: tons of fuel = FuelNum / FuelDen, leg_hours in thousandths
FuelDen(ship_spec) ==
    24 * 1000 * ship_spec.avg_speed_knots * ship_spec.avg_speed_knots
       * ship_spec.avg_speed_knots

\* variant: a quadratic law
FuelNum_Quadratic(ship_spec, leg_hours, current_stw) ==
    ship_spec.fuel_rate_tons_per_day * leg_hours
       * current_stw * current_stw * ship_spec.avg_speed_knots

FuelNum(ship_spec, leg_hours, current_stw) ==
    ship_spec.fuel_rate_tons_per_day * leg_hours
       * current_stw * current_stw * current_stw

\* variant: every leg timed from the start of the voyage
ArrivalTime_FromStart(time, leg_hours) == leg_hours

\* line 111
ArrivalTime(time, leg_hours) == time + leg_hours

\* variant: 48 hours of slack already counts as early
LaycanStatus_EarlyInclusive(diff) ==
    IF diff < 0 THEN "late"
    ELSE IF diff >= 48 * 1000 THEN "early"
    ELSE "on_time"

\* lines 138-142, diff in thousandths of an hour
LaycanStatus(diff) ==
    IF diff < 0 THEN "late"
    ELSE IF diff > 48 * 1000 THEN "early"
    ELSE "on_time"

\* total fuel in kg (thousandths of a ton), the resolution of the cost figures
FuelKg(fuel_num, ship_spec) ==
    RoundDiv(fuel_num, 24 * ship_spec.avg_speed_knots * ship_spec.avg_speed_knots
                          * ship_spec.avg_speed_knots)

\* variant: a total equal to the capacity already needs a stop
ExceedsCapacity_Inclusive(fuel_num, fuel_den, fuel_capacity) ==
    fuel_num \div fuel_den >= fuel_capacity

\* line 152: total_fuel > fuel_capacity, total_fuel = fuel_num / fuel_den tons
ExceedsCapacity(fuel_num, fuel_den, fuel_capacity) ==
    \/ fuel_num \div fuel_den > fuel_capacity
    \/ fuel_num \div fuel_den = fuel_capacity /\ fuel_num % fuel_den > 0

\* min(BUNKERING_PORTS, key=bunker_price): the first port of lowest price
CheapestPort ==
    LET lowest == Positions(BunkeringPortNames,
                     {i \in DOMAIN BunkeringPortNames :
                        \A m \in DOMAIN BUNKERING_PORTS :
                           BUNKERING_PORTS[BunkeringPortNames[i]].bunker_price
                              <= BUNKERING_PORTS[m].bunker_price})
    IN  BunkeringPortNames[lowest[1]]

\* line 157: round(total_fuel - fuel_capacity + 500, 2), in hundredths of a ton
FuelNeeded(fuel_kg, ship_spec) ==
    RoundHalfEven(fuel_kg - ship_spec.fuel_capacity_tons * 1000 + 500 * 1000, 10)

\* variant: the stop is appended without the capacity test
FuelStops_Always(fuel_num, fuel_den, fuel_kg, ship_spec) ==
    << [port_name |-> CheapestPort,
        fuel_needed_tons |-> FuelNeeded(fuel_kg, ship_spec)] >>

\* lines 149-158: fuel_stops; total fuel is fuel_num / fuel_den tons, fuel_kg
\* the same amount to the kilogram
FuelStops(fuel_num, fuel_den, fuel_kg, ship_spec) ==
    IF ExceedsCapacity(fuel_num, fuel_den, ship_spec.fuel_capacity_tons)
    THEN << [port_name |-> CheapestPort,
             fuel_needed_tons |-> FuelNeeded(fuel_kg, ship_spec)] >>
    ELSE <<>>

\* quotient and remainder of r * b / den for 0 <= r < den, by doubling, so
\* that no intermediate value leaves 32 bits
RECURSIVE MulDiv(_, _, _)
MulDiv(r, b, den) ==
    IF b = 0 THEN <<0, 0>>
    ELSE LET p == MulDiv(r, b \div 2, den)
             t == 2 * p[2] + r * (b % 2)
         IN  <<2 * p[1] + t \div den, t % den>>

\* round(total_fuel * rate) in dollars, total_fuel = fuel_num / fuel_den tons,
\* rate in cents per ton
RoundedCost(fuel_num, fuel_den, rate_x100) ==
    LET part == MulDiv(fuel_num % fuel_den, rate_x100, fuel_den)
        cents == (fuel_num \div fuel_den) * rate_x100 + part[1]
        n == cents \div 100
        d == cents % 100
    IN  IF d > 50 \/ (d = 50 /\ (part[2] > 0 \/ n % 2 = 1)) THEN n + 1 ELSE n

\* lines 147 and 170: round(bunker_cost + co2_cost)
ReportedTotal(fuel_num, fuel_den, bunker_x100, co2_x100) ==
    RoundedCost(fuel_num, fuel_den, bunker_x100 + co2_x100)

\* round(x, 2) of a distance, a duration and a fuel amount as the response
\* carries them, in hundredths (lines 116, 120, 121 and 163-165); the
\* duration is hours_num / hours_den thousandths of an hour
Reported(dist_nm, hours_num, hours_den, fuel_num, ship_spec) ==
    [distance_nm |-> RoundHalfEven(dist_nm, 10),
     hours |-> RoundHalfEven(hours_num, 10 * hours_den),
     fuel_consumption_mt |-> RoundedCost(fuel_num, FuelDen(ship_spec), 100 * 100)]

\* lines 132-178: the response body after the loop; costs in whole dollars
SimulationResult(req, ship_spec, the_legs, dist, hours, fuel, time) ==
    LET diff == req.laycan.end - time
        kg == FuelKg(fuel, ship_spec)
        bunker_x100 == req.costs.bunker_price_usd_mt * 100
        co2_x100 == 317 * req.costs.co2_price_usd_mt
        fuel_stops == FuelStops(fuel, FuelDen(ship_spec), kg, ship_spec)
    IN  [legs |-> the_legs,
         total |->
           [distance_nm |-> dist,
            voyage_hours |-> hours,
            fuel_consumption_mt |-> fuel,
            reported |-> Reported(dist, hours, 1, fuel, ship_spec),
            eta |-> time,
            costs |-> [bunker_cost_usd |->
                           RoundedCost(fuel, FuelDen(ship_spec), bunker_x100),
                       co2_cost_usd |->
                           RoundedCost(fuel, FuelDen(ship_spec), co2_x100),
                       total_voyage_cost_usd |->
                           ReportedTotal(fuel, FuelDen(ship_spec), bunker_x100, co2_x100)],
            laycanRisk |-> [status |-> LaycanStatus(diff), diffHours |-> diff],
            fuel_stops |-> fuel_stops]]

\* request values the model draws
MaxWaypoints == 3

WaypointLists ==
    UNION {[1..n -> WaypointInputs] : n \in 0..MaxWaypoints}

StwInputs == {0, 14}

SpeedAdjustmentInputs ==
    { <<>>,
      << [legIndex |-> 0, newStw |-> 20] >>,
      << [legIndex |-> 1, newStw |-> -3], [legIndex |-> 1, newStw |-> 20] >> }

SimShipInputs == DOMAIN SIM_SHIP_TYPES \cup {"submarine"}

\* laycan end in thousandths of an hour after startTime; ok = FALSE is a
\* missing or malformed laycan end
LaycanInputs ==
    { [ok |-> FALSE, end |-> 0], [ok |-> TRUE, end |-> 0],
      [ok |-> TRUE, end |-> 48 * 1000], [ok |-> TRUE, end |-> 60 * 1000] }

CostInputs == { [bunker_price_usd_mt |-> 650, co2_price_usd_mt |-> 90] }

\* random.uniform draws, tenths of a knot
WindEffects == {-15, 5}
WaveEffects == {-10, -2}
CurrentEffects == {-20, 20}

SimRequests ==
    [waypoints : WaypointLists, startTimeOk : BOOLEAN, stw : StwInputs,
     costs : CostInputs, laycan : LaycanInputs,
     speedAdjustments : SpeedAdjustmentInputs, shipType : SimShipInputs]

\* variant: an unknown ship type falls back to a default profile
KnownShip_Default(ship_type) == TRUE

\* lines 66-68: SHIP_TYPES.get(ship_type) finds a profile
KnownShip(ship_type) == ship_type \in DOMAIN SIM_SHIP_TYPES

NoRequest == [shipType |-> "none"]
NoResponse == [code |-> 0, body |-> [none |-> TRUE]]

\* lines 56-75: read the request, look the ship up, parse startTime (the
\* handler keeps no state between calls, so a behaviour holds one call)
SimStart ==
    /\ sim_pc = "idle"
    /\ \E req \in SimRequests :
        /\ sim_req' = req
        /\ legs' = <<>>
        /\ total_dist_nm' = 0
        /\ total_hours' = 0
        /\ total_fuel' = 0
        /\ current_time' = 0
        /\ IF ~KnownShip(req.shipType)
           THEN /\ sim_pc' = "error"
                /\ sim_resp' = [code |-> 400,
                                body |-> [error |-> "Invalid ship type provided."]]
           ELSE IF ~req.startTimeOk
           THEN /\ sim_pc' = "error"
                /\ sim_resp' = [code |-> 500,
                                body |-> [error |-> "An internal simulation error occurred."]]
           ELSE /\ sim_pc' = "loop"
                /\ sim_resp' = NoResponse
    /\ UNCHANGED <<planVars, riskVars, probeVars, directVars, alertVars>>

\* lines 77-130: one iteration of the leg loop, i = Len(legs)
SimLeg ==
    /\ sim_pc = "loop"
    /\ Len(legs) < Len(sim_req.waypoints) - 1
    /\ \E wind_effect \in WindEffects, wave_effect \in WaveEffects,
          current_effect \in CurrentEffects :
        LET i == Len(legs)
            ship_spec == SIM_SHIP_TYPES[sim_req.shipType]
            from_wp == sim_req.waypoints[i + 1]
            to_wp == sim_req.waypoints[i + 2]
            dist_nm == calculate_distance(from_wp, to_wp)
            current_stw == CommandedSpeed(sim_req.speedAdjustments, i, sim_req.stw)
            stw_effective == EffectiveStw(current_stw, wind_effect, wave_effect)
            sog == SpeedOverGround(stw_effective, current_effect)
            leg_hours == LegHours(dist_nm, sog)
            fuel_consumption_mt == FuelNum(ship_spec, leg_hours, current_stw)
            arrival_time == ArrivalTime(current_time, leg_hours)
        IN  IF leg_hours = Infinity
            THEN \* timedelta(hours=inf) raises OverflowError
                 /\ sim_pc' = "error"
                 /\ sim_resp' = [code |-> 500,
                                 body |-> [error |-> "An internal simulation error occurred."]]
                 /\ UNCHANGED <<legs, total_dist_nm, total_hours, total_fuel,
                                current_time>>
            ELSE /\ legs' = Append(legs,
                       [index |-> i, from |-> from_wp, to |-> to_wp,
                        distance_nm |-> dist_nm, stw_commanded |-> current_stw,
                        stw_effective |-> stw_effective, sog |-> sog,
                        leg_hours |-> leg_hours,
                        fuel_consumption_mt |-> fuel_consumption_mt,
                        arrivalTime |-> arrival_time,
                        reported |-> Reported(dist_nm, dist_nm * 10, sog,
                                              fuel_consumption_mt, ship_spec),
                        wind |-> wind_effect, wave |-> wave_effect,
                        c_parallel |-> current_effect])
                 /\ total_dist_nm' = total_dist_nm + dist_nm
                 /\ total_hours' = total_hours + leg_hours
                 /\ total_fuel' = total_fuel + fuel_consumption_mt
                 /\ current_time' = arrival_time
                 /\ UNCHANGED <<sim_pc, sim_resp>>
    /\ UNCHANGED <<sim_req, planVars, riskVars, probeVars, directVars, alertVars>>

\* lines 132-178: laycan analysis, costs, fuel stops and the response
SimFinish ==
    /\ sim_pc = "loop"
    /\ Len(legs) >= Len(sim_req.waypoints) - 1
    /\ IF ~sim_req.laycan.ok
       THEN /\ sim_pc' = "error"
            /\ sim_resp' = [code |-> 500,
                            body |-> [error |-> "An internal simulation error occurred."]]
       ELSE /\ sim_pc' = "done"
            /\ sim_resp' = [code |-> 200,
                            body |-> SimulationResult(sim_req,
                                        SIM_SHIP_TYPES[sim_req.shipType], legs,
                                        total_dist_nm, total_hours, total_fuel,
                                        current_time)]
    /\ UNCHANGED <<sim_req, legs, total_dist_nm, total_hours, total_fuel,
                   current_time, planVars, riskVars, probeVars, directVars, alertVars>>

---------------------------------------------------------------------------
(* Direct evaluation of the cubic fuel law at a speed and at twice that speed *)

MaxProbeHours == 24
MaxProbeStw == 14

NoProbe == [ship |-> "none", leg_hours |-> 0, stw |-> 0, fuel |-> 0, fuel_doubled |-> 0]

ProbeFuel ==
    /\ probe.ship = "none"
    /\ \E ship \in DOMAIN SIM_SHIP_TYPES, h \in 0..MaxProbeHours,
          s \in (0 - MaxProbeStw)..MaxProbeStw :
          probe' = [ship |-> ship, leg_hours |-> h, stw |-> s,
                    fuel |-> FuelNum(SIM_SHIP_TYPES[ship], h, s),
                    fuel_doubled |-> FuelNum(SIM_SHIP_TYPES[ship], h, 2 * s)]
    /\ UNCHANGED <<planVars, riskVars, simVars, directVars, alertVars>>

---------------------------------------------------------------------------
(* Direct calls of calculate_eca_compliance and of the fuel stop step *)

\* endpoints inside, on the edge of, and outside the three boxes
EcaPoints ==
    {[lat |-> 3374850, lng |-> -11824360],     \* Los Angeles, North American ECA
     [lat |-> 2500000, lng |-> -13000000],     \* corner of the North American ECA
     [lat |-> 5000000, lng |-> -6500000],      \* opposite corner
     [lat |-> 2499999, lng |-> -10000000],     \* just south of it
     [lat |-> 5192250, lng |-> 447920],        \* Rotterdam, North Sea ECA
     [lat |-> 5100000, lng |-> 1200000],       \* corner of the North Sea ECA
     [lat |-> 5600000, lng |-> 1100000],       \* North Sea and Baltic Sea ECA
     [lat |-> 5350000, lng |-> 1000000],       \* corner of the Baltic, in the North Sea box
     [lat |-> 6000000, lng |-> 2500000],       \* Baltic Sea ECA
     [lat |-> 6600000, lng |-> 3000001],       \* just east of the Baltic Sea ECA
     [lat |-> 135210, lng |-> 10381980],       \* Singapore
     [lat |-> 0, lng |-> 0]}

MaxFuelSteps == 20

\* total fuel in kg: around the capacity in steps of 10 kg, and 1 kg above
\* each step
FuelTotals(ship_spec) ==
    {ship_spec.fuel_capacity_tons * 1000 + 10 * k + j :
        k \in (0 - MaxFuelSteps)..MaxFuelSteps, j \in {0, 1}}

NoCall == [fn |-> "none"]

CallEcaCompliance ==
    /\ direct.fn = "none"
    /\ \E o \in EcaPoints, d \in EcaPoints :
          direct' = [fn |-> "calculate_eca_compliance", origin |-> o, dest |-> d,
                     result |-> calculate_eca_compliance(o, d)]
    /\ UNCHANGED <<planVars, riskVars, simVars, probeVars, alertVars>>

CallFuelStops ==
    /\ direct.fn = "none"
    /\ \E ship \in DOMAIN SIM_SHIP_TYPES :
          \E kg \in FuelTotals(SIM_SHIP_TYPES[ship]) :
             direct' = [fn |-> "fuel_stops", ship |-> ship, total_fuel_kg |-> kg,
                        result |-> FuelStops(kg, 1000, kg, SIM_SHIP_TYPES[ship])]
    /\ UNCHANGED <<planVars, riskVars, simVars, probeVars, alertVars>>

---------------------------------------------------------------------------
(* Direct calls of the two great-circle distance functions *)

\* points in 1e-4 degree
DistancePoints ==
    <<
      [lat |-> 0, lng |-> 0],   \* the simulator's first waypoint
      [lat |-> 1000, lng |-> 1000],   \* its second waypoint
      [lat |-> 13521, lng |-> 1038198],   \* Singapore
      [lat |-> 519225, lng |-> 44792],   \* Rotterdam
      [lat |-> 173827, lng |-> -1095716],   \* a point in the Pacific
      [lat |-> -173827, lng |-> 704284],   \* its antipode
      [lat |-> 852200, lng |-> -1014000],   \* a point in the Arctic
      [lat |-> -852200, lng |-> 786000]    \* its antipode
    >>

\* the outcome of a call that raises ValueError("math domain error")
ValueError == -1

\* calculate_great_circle_distance of app.py evaluated on the row point and
\* the column point (order of DistancePoints), in hundredths of nm
GreatCircleNm ==
    <<
      <<0, 849, 623315, 312567, 652303, 428425, 546030, 534698>>,
      <<849, 0, 622700, 311932, 652683, 428045, 545481, 535247>>,
      <<623315, 622700, 0, 568430, 853424, 227304, 558209, 522519>>,
      <<312567, 311932, 568430, 0, 541979, 538749, 237833, 842895>>,
      <<652303, 652683, 853424, 541979, 0, 1080728, 407598, 673130>>,
      <<428425, 428045, 227304, 538749, 1080728, 0, 673130, 407598>>,
      <<546030, 545481, 558209, 237833, 407598, 673130, 0, 1080728>>,
      <<534698, 535247, 522519, 842895, 673130, 407598, 1080728, 0>>
    >>

\* calculate_distance of simu_routes.py on the same points: when rounding lifts
\* a above 1, math.sqrt(1 - a) raises
SimDistanceNm ==
    <<
      <<0, 849, 623315, 312567, 652303, 428425, 546030, 534698>>,
      <<849, 0, 622700, 311932, 652683, 428045, 545481, 535247>>,
      <<623315, 622700, 0, 568430, 853424, 227304, 558209, 522519>>,
      <<312567, 311932, 568430, 0, 541979, 538749, 237833, 842895>>,
      <<652303, 652683, 853424, 541979, 0, ValueError, 407598, 673130>>,
      <<428425, 428045, 227304, 538749, ValueError, 0, 673130, 407598>>,
      <<546030, 545481, 558209, 237833, 407598, 673130, 0, ValueError>>,
      <<534698, 535247, 522519, 842895, 673130, 407598, ValueError, 0>>
    >>

CallDistances ==
    /\ direct.fn = "none"
    /\ \E i \in DOMAIN DistancePoints, j \in DOMAIN DistancePoints :
          direct' = [fn |-> "distance",
                     a |-> DistancePoints[i], b |-> DistancePoints[j],
                     planner |-> GreatCircleNm[i][j],
                     planner_swapped |-> GreatCircleNm[j][i],
                     simulator |-> SimDistanceNm[i][j],
                     simulator_swapped |-> SimDistanceNm[j][i]]
    /\ UNCHANGED <<planVars, riskVars, simVars, probeVars, alertVars>>

---------------------------------------------------------------------------
(* The 10-day forecast: forecast10 of src/BACKEND/app.py and forecast10 of  *)
(* src/weatherfinal-master/BACKEND/app.py.  Time is counted in 3-hour slots *)
(* from a midnight UTC; a date is a day number, slot \div 8.                *)

MaxForecastEntries == 40

\* the "list" of the forecast API: cnt entries 3 hours apart from first_slot
ForecastList(first_slot, cnt) == [k \in 1..cnt |-> [dt |-> first_slot + k - 1]]

\* buckets by UTC date, one aggregate per date in date order
aggregate_3h_to_daily(list3h) ==
    LET dates == {list3h[k].dt \div 8 : k \in DOMAIN list3h}
    IN  [i \in 1..Cardinality(dates) |->
            [date |-> CHOOSE d \in dates : Cardinality({e \in dates : e < d}) = i - 1,
             source |-> "api-data"]]

\* generate_estimated_days that always yields days 6 to 10
generate_estimated_days_FiveAlways(last_real_day, num_days) ==
    [i \in 1..5 |-> [date |-> last_real_day.date + i, source |-> "estimated"]]

generate_estimated_days(last_real_day, num_days) ==
    [i \in 1..num_days |-> [date |-> last_real_day.date + i, source |-> "estimated"]]

\* forecast10 of src/BACKEND/app.py, from the API's answer to the response
forecast10(list3h) ==
    LET days == aggregate_3h_to_daily(list3h)
        real_days == SubSeq(days, 1, IF Len(days) < 5 THEN Len(days) ELSE 5)
        estimated_days == generate_estimated_days(real_days[Len(real_days)],
                                                  10 - Len(real_days))
        all_days == real_days \o estimated_days
        ten == SubSeq(all_days, 1, IF Len(all_days) < 10 THEN Len(all_days) ELSE 10)
    IN  IF days = <<>>
        THEN [code |-> 500, error |-> "Unable to fetch forecast"]
        ELSE [code |-> 200, days |-> ten,
              data_info |-> [real_days |-> Len(real_days),
                             estimated_days |-> Len(ten) - Len(real_days)]]

\* forecast10 of src/weatherfinal-master/BACKEND/app.py: the loop appends a day
\* after the last one until there are 10; with no day at all the stand-in for
\* the last day has no date and the lookup raises KeyError
forecast10_maritime(list3h) ==
    LET days == aggregate_3h_to_daily(list3h)
        RECURSIVE Extend(_)
        Extend(so_far) ==
            IF Len(so_far) < 10
            THEN Extend(Append(so_far, [date |-> so_far[Len(so_far)].date + 1,
                                        source |-> "estimated"]))
            ELSE so_far
    IN  IF days = <<>>
        THEN [code |-> 500, error |-> "Forecast unavailable"]
        ELSE [code |-> 200, days |-> SubSeq(Extend(days), 1, 10)]

CallForecast10 ==
    /\ direct.fn = "none"
    /\ \E variant \in {"BACKEND", "weatherfinal"}, first_slot \in 0..7,
          cnt \in 0..MaxForecastEntries :
          direct' = [fn |-> "forecast10", variant |-> variant,
                     first_slot |-> first_slot, entries |-> cnt,
                     response |-> IF variant = "BACKEND"
                                  THEN forecast10(ForecastList(first_slot, cnt))
                                  ELSE forecast10_maritime(ForecastList(first_slot, cnt))]
    /\ UNCHANGED <<planVars, riskVars, simVars, probeVars, alertVars>>

---------------------------------------------------------------------------
(* The alert store of src/BACKEND/app.py: datasets/alerts.csv, read and     *)
(* written back whole by every acknowledge request                          *)

\* decimal text of the small integers the store holds
Digits == <<"0", "1", "2", "3", "4", "5", "6", "7", "8", "9">>

ParseInt(text) == CHOOSE n \in 0..9 : Digits[n + 1] = text

\* pandas.read_csv: the first line names the columns; a column whose cells are
\* all integers is read as int64, any other column as text (object)
read_csv(file) ==
    LET columns == file[1]
        lines == Tail(file)
        IsIntText(text) == \E n \in 0..9 : Digits[n + 1] = text
        dtype(j) == IF \A k \in 1..Len(lines) : IsIntText(lines[k][j])
                    THEN "int64" ELSE "object"
    IN  [columns |-> columns,
         dtypes |-> [j \in 1..Len(columns) |-> dtype(j)],
         rows |-> [k \in 1..Len(lines) |->
                     [j \in 1..Len(columns) |->
                         IF dtype(j) = "int64"
                         THEN [int |-> ParseInt(lines[k][j])]
                         ELSE [text |-> lines[k][j]]]]]

\* DataFrame.to_csv(index=False): the header line, then one line per row
to_csv(df) ==
    <<df.columns>> \o
    [k \in 1..Len(df.rows) |->
        [j \in 1..Len(df.columns) |->
            IF df.dtypes[j] = "int64"
            THEN Digits[df.rows[k][j].int + 1]
            ELSE df.rows[k][j].text]]

\* the file ensure_csv writes when datasets/alerts.csv does not exist (the
\* dash of the third message is an en dash in the source)
SampleAlerts ==
    <<
      <<"id", "message", "severity", "acknowledged">>,
      <<"1", "High waves in Bay of Bengal", "High", "0">>,
      <<"2", "Storm warning near London", "Medium", "0">>,
      <<"3", "Fog advisory - North Sea", "Low", "0">>
    >>

\* df.loc[df["id"].isin(ids), "acknowledged"] = 1, which turns every flag of
\* the rows it names into 0
SetAcknowledged_ResetOthers(df, ids) ==
    LET id == CHOOSE j \in 1..Len(df.columns) : df.columns[j] = "id"
        flag == CHOOSE j \in 1..Len(df.columns) : df.columns[j] = "acknowledged"
    IN  [df EXCEPT !.rows =
            [k \in 1..Len(df.rows) |->
                [df.rows[k] EXCEPT ![flag] =
                    [int |-> IF df.rows[k][id].int \in ids THEN 1 ELSE 0]]]]

\* df.loc[df["id"].isin(ids), "acknowledged"] = 1
SetAcknowledged(df, ids) ==
    LET id == CHOOSE j \in 1..Len(df.columns) : df.columns[j] = "id"
        flag == CHOOSE j \in 1..Len(df.columns) : df.columns[j] = "acknowledged"
    IN  [df EXCEPT !.rows =
            [k \in 1..Len(df.rows) |->
                IF df.rows[k][id].int \in ids
                THEN [df.rows[k] EXCEPT ![flag] = [int |-> 1]]
                ELSE df.rows[k]]]

MaxAlertId == 4
MaxRequests == 2

\* a request carries ids from 1..MaxAlertId: the stored alerts and an unknown id

\* the two requests the development server handles in its threads
Requests == {"A", "B"}

\* acknowledge_alerts handled alone, from the request to the response
AcknowledgeAlerts ==
    /\ Len(ack_log) < MaxRequests
    /\ \A r \in Requests : ack[r].pc = "idle"
    /\ \E ids \in SUBSET (1..MaxAlertId) :
          /\ alerts_csv' = to_csv(SetAcknowledged(read_csv(alerts_csv), ids))
          /\ ack_log' = Append(ack_log, ids)
    /\ UNCHANGED <<ack, planVars, riskVars, simVars, probeVars, directVars>>

\* acknowledge_alerts in one of two threads, line 250: the request arrives
AckReceive(r) ==
    /\ ack[r].pc = "idle"
    /\ \E ids \in SUBSET (1..MaxAlertId) : ack' = [ack EXCEPT ![r].pc = "received", ![r].ids = ids]
    /\ UNCHANGED <<alerts_csv, ack_log, planVars, riskVars, simVars, probeVars, directVars>>

\* line 251: the thread reads the file
AckRead(r) ==
    /\ ack[r].pc = "received"
    /\ ack' = [ack EXCEPT ![r].pc = "loaded", ![r].df = read_csv(alerts_csv)]
    /\ UNCHANGED <<alerts_csv, ack_log, planVars, riskVars, simVars, probeVars, directVars>>

\* lines 252 to 254: the thread sets the flags in its copy, writes the file
\* and answers
AckWrite(r) ==
    /\ ack[r].pc = "loaded"
    /\ alerts_csv' = to_csv(SetAcknowledged(ack[r].df, ack[r].ids))
    /\ ack' = [ack EXCEPT ![r].pc = "done"]
    /\ ack_log' = Append(ack_log, ack[r].ids)
    /\ UNCHANGED <<planVars, riskVars, simVars, probeVars, directVars>>

---------------------------------------------------------------------------
(* Specifications *)

Init ==
    /\ plan_pc = "idle"
    /\ plan = NoPlan
    /\ risk = NoRisk
    /\ sim_pc = "idle"
    /\ sim_req = NoRequest
    /\ legs = <<>>
    /\ total_dist_nm = 0
    /\ total_hours = 0
    /\ total_fuel = 0
    /\ current_time = 0
    /\ sim_resp = NoResponse
    /\ probe = NoProbe
    /\ direct = NoCall
    /\ alerts_csv = SampleAlerts
    /\ ack = [r \in Requests |-> [pc |-> "idle", ids |-> {}, df |-> read_csv(SampleAlerts)]]
    /\ ack_log = <<>>

NextPlan == PlanReceive \/ PlanRoute
NextRisk == AssessRisks
NextSim == SimStart \/ SimLeg \/ SimFinish
NextFuel == ProbeFuel
NextDirect == CallEcaCompliance \/ CallFuelStops \/ CallDistances \/ CallForecast10
NextAlerts == AcknowledgeAlerts
NextThreads == \E r \in Requests : AckReceive(r) \/ AckRead(r) \/ AckWrite(r)
Next ==
    \/ PlanReceive \/ PlanRoute \/ AssessRisks \/ SimStart \/ SimLeg \/ SimFinish
    \/ ProbeFuel \/ CallEcaCompliance \/ CallFuelStops \/ CallDistances
    \/ CallForecast10
    \/ AcknowledgeAlerts
    \/ \E r \in Requests : AckReceive(r) \/ AckRead(r) \/ AckWrite(r)

SpecPlan == Init /\ [][NextPlan]_vars
SpecRisk == Init /\ [][NextRisk]_vars
SpecSim == Init /\ [][NextSim]_vars
SpecFuel == Init /\ [][NextFuel]_vars
SpecDirect == Init /\ [][NextDirect]_vars
SpecAlerts == Init /\ [][NextAlerts]_vars
SpecThreads == Init /\ [][NextThreads]_vars
Spec == Init /\ [][Next]_vars

---------------------------------------------------------------------------
(* Properties of the route planner (SpecPlan) *)

PlanSucceeded == plan.code = 200

ComponentSum(cb) ==
    cb.fuel_cost + cb.port_cost + cb.canal_cost + cb.insurance_cost
        + cb.compliance_cost + cb.other_costs

\* C1: in every successful route-plan response the reported total_cost equals
\* the sum of the six reported components fuel_cost, port_cost, canal_cost,
\* insurance_cost, compliance_cost and other_costs.
C1_TotalIsSumOfComponents ==
    PlanSucceeded =>
        plan.body.cost_breakdown.total_cost = ComponentSum(plan.body.cost_breakdown)

InvalidReference ==
    /\ plan_pc = "done"
    /\ \/ plan.req.origin \notin DOMAIN MAJOR_PORTS
       \/ plan.req.destination \notin DOMAIN MAJOR_PORTS
       \/ plan.req.ship_type \notin DOMAIN SHIP_TYPES

\* C10: a request naming a port or a ship type outside the catalogs is answered
\* with status 400 and a body holding the error field only, and no stage of
\* the computation (distance, weather, cost, risk, ...) has run before it.
C10_InvalidReferenceErrorOnly ==
    InvalidReference =>
        /\ plan.code = 400
        /\ DOMAIN plan.body = {"error"}
        /\ plan.trace = <<>>

\* C10 happens: known ports with an unknown ship type are rejected
C10_InvalidShipRejected ==
    /\ InvalidReference
    /\ plan.req.origin \in DOMAIN MAJOR_PORTS
    /\ plan.req.destination \in DOMAIN MAJOR_PORTS
    /\ plan.code = 400

---------------------------------------------------------------------------
(* Properties of the risk assessor (SpecRisk) *)

RiskAssessed == risk.month # 0

HighZoneEndpoint ==
    /\ RiskAssessed
    /\ \E z \in DOMAIN PIRACY_ZONES :
          /\ PIRACY_ZONES[z].risk_level = "HIGH"
          /\ EndpointInZone(risk.origin, risk.dest, PIRACY_ZONES[z].bounds)

\* C2 as stated: an endpoint inside a HIGH piracy zone gives overall_risk HIGH
\* and risk_score >= 35.
C2_HighZoneIsHigh ==
    HighZoneEndpoint =>
        /\ risk.result.overall_risk = "HIGH"
        /\ risk.result.risk_score >= 35

\* C2 amended: an endpoint inside a HIGH piracy zone gives risk_score >= 35 and
\* an overall_risk of MEDIUM or HIGH, HIGH exactly when the score reaches 50.
C2_HighZoneAtLeastMedium ==
    HighZoneEndpoint =>
        /\ risk.result.risk_score >= 35
        /\ risk.result.overall_risk \in {"MEDIUM", "HIGH"}
        /\ risk.result.overall_risk = "HIGH" <=> risk.result.risk_score >= 50

\* C2 happens: a HIGH zone endpoint with nothing else scores 35 and is MEDIUM
C2_HighZoneMedium ==
    /\ HighZoneEndpoint
    /\ risk.result.risk_score = 35
    /\ risk.result.overall_risk = "MEDIUM"

PiracyCount(findings, levels) ==
    Cardinality({i \in DOMAIN findings :
                    findings[i].type = "Piracy Risk" /\ findings[i].level \in levels})

Present(findings, type) ==
    IF \E i \in DOMAIN findings : findings[i].type = type THEN 1 ELSE 0

ScoreOfFindings(findings) ==
    35 * PiracyCount(findings, {"HIGH"})
    + 20 * PiracyCount(findings, {"MEDIUM", "LOW"})
    + 20 * Present(findings, "Seasonal Weather")
    + 15 * Present(findings, "Weather Variation")
    + 10 * Present(findings, "Port Congestion")

\* C8: the reported risk_score is min(100, 35 per HIGH piracy finding + 20 per
\* other piracy finding + 20 for Seasonal Weather + 15 for Weather Variation
\* + 10 for Port Congestion), counted on the findings of the same result, and
\* lies in 0..100.
C8_ScoreIsSumOfFindings ==
    RiskAssessed =>
        /\ risk.result.risk_score =
               Min(100, ScoreOfFindings(risk.result.individual_risks))
        /\ risk.result.risk_score \in 0..100

\* C8 happens: two HIGH zones, an ordinary season finding and congestion
C8_ScoreReachesHundred ==
    /\ RiskAssessed
    /\ risk.result.risk_score = 100
    /\ PiracyCount(risk.result.individual_risks, {"HIGH"}) = 2
    /\ Present(risk.result.individual_risks, "Seasonal Weather") = 1

\* C9: overall_risk is HIGH exactly when the reported risk_score is >= 50,
\* MEDIUM exactly when it is in 25..49 and LOW exactly when it is below 25.
C9_OverallRiskThresholds ==
    RiskAssessed =>
        /\ risk.result.overall_risk = "HIGH" <=> risk.result.risk_score >= 50
        /\ risk.result.overall_risk = "MEDIUM" <=>
               (risk.result.risk_score >= 25 /\ risk.result.risk_score < 50)
        /\ risk.result.overall_risk = "LOW" <=> risk.result.risk_score < 25

\* C9 happens: a score of exactly 50 is classified HIGH
C9_FiftyIsHigh ==
    /\ RiskAssessed
    /\ risk.result.risk_score = 50
    /\ risk.result.overall_risk = "HIGH"

---------------------------------------------------------------------------
(* Properties of the voyage simulator (SpecSim) *)

SimDone == sim_pc = "done"

\* C3: on every leg the speed over ground is max(1.0, commanded speed + wind
\* + wave + current effect), whatever the commanded speed, and so is never
\* below 1.0 knot (speeds in tenths of a knot).
C3_SogIsFlooredSum ==
    \A i \in DOMAIN legs :
        /\ legs[i].sog = Max(10, legs[i].stw_commanded * 10 + legs[i].wind
                                    + legs[i].wave + legs[i].c_parallel)
        /\ legs[i].sog >= 10

\* C3 happens: a leg commanded at zero or astern sails at the floor
C3_FloorApplied ==
    \E i \in DOMAIN legs :
        /\ legs[i].stw_commanded <= 0
        /\ legs[i].stw_commanded * 10 + legs[i].wind + legs[i].wave
               + legs[i].c_parallel < 10
        /\ legs[i].sog = 10

PreviousArrival(i) == IF i = 1 THEN 0 ELSE legs[i - 1].arrivalTime

\* C4: each leg arrives at the previous leg's arrival (the start for the first
\* leg) plus its own leg_hours, arrivals never decrease along the voyage, the
\* clock stands at the last arrival, and the reported ETA is that arrival (the
\* start when there is no leg).
C4_ClockCarriedForward ==
    /\ \A i \in DOMAIN legs :
          /\ legs[i].arrivalTime = PreviousArrival(i) + legs[i].leg_hours
          /\ legs[i].arrivalTime >= PreviousArrival(i)
    /\ current_time = PreviousArrival(Len(legs) + 1)
    /\ SimDone => sim_resp.body.total.eta = PreviousArrival(Len(legs) + 1)

\* C4 happens: a finished voyage of several legs, each arriving later
C4_TwoLegsArriveInOrder ==
    /\ SimDone
    /\ Len(legs) >= 2
    /\ legs[1].arrivalTime > 0
    /\ legs[2].arrivalTime > legs[1].arrivalTime
    /\ sim_resp.body.total.eta = legs[Len(legs)].arrivalTime

\* C5 as stated: every leg's leg_hours is finite and strictly positive.
C5_LegHoursPositive ==
    \A i \in DOMAIN legs :
        legs[i].leg_hours # Infinity /\ legs[i].leg_hours > 0

\* C5 amended: every leg's leg_hours is finite and not negative; it is zero
\* for a leg between coincident waypoints, positive for a leg of positive
\* distance, and never more than the leg's distance in nm (sog >= 1 knot).
C5_LegHoursFiniteNonNegative ==
    \A i \in DOMAIN legs :
        /\ legs[i].leg_hours # Infinity
        /\ legs[i].leg_hours >= 0
        /\ legs[i].from = legs[i].to => legs[i].leg_hours = 0
        /\ legs[i].distance_nm > 0 => legs[i].leg_hours > 0
        /\ legs[i].leg_hours <= legs[i].distance_nm

\* C5 happens: a leg between coincident waypoints takes no time
C5_CoincidentLegTakesNoTime ==
    \E i \in DOMAIN legs :
        /\ legs[i].from = legs[i].to
        /\ legs[i].distance_nm = 0
        /\ legs[i].leg_hours = 0

LaycanDiff == sim_req.laycan.end - current_time

\* C6: the laycan status is late exactly when laycan end minus final arrival
\* is negative, early exactly when it exceeds 48 hours, and on_time for every
\* difference from 0 to 48 hours inclusive; one of the three is reported.
C6_LaycanStatusThresholds ==
    SimDone =>
        LET status == sim_resp.body.total.laycanRisk.status
        IN  /\ status \in {"late", "early", "on_time"}
            /\ status = "late" <=> LaycanDiff < 0
            /\ status = "early" <=> LaycanDiff > 48 * 1000
            /\ status = "on_time" <=> (LaycanDiff >= 0 /\ LaycanDiff <= 48 * 1000)

\* C6 happens: arriving exactly 48 hours before the laycan end is on_time
C6_FortyEightIsOnTime ==
    /\ SimDone
    /\ LaycanDiff = 48 * 1000
    /\ sim_resp.body.total.laycanRisk.status = "on_time"

---------------------------------------------------------------------------
(* Properties of the fuel law (SpecFuel) *)

Probed == probe.ship # "none"

---------------------------------------------------------------------------
(* Further properties of the voyage simulator (SpecSim) *)

UnknownShipRequested ==
    sim_pc # "idle" /\ sim_req.shipType \notin DOMAIN SIM_SHIP_TYPES

\* C11: a simulation request whose ship type is not in the simulator's ship
\* catalog is answered with an error (status 400, error field only) and no
\* leg is computed: the leg list stays empty and no distance, hours or fuel
\* is accumulated, whatever the waypoints and the other inputs are.
C11_UnknownShipNoLeg ==
    UnknownShipRequested =>
        /\ sim_pc = "error"
        /\ sim_resp.code = 400
        /\ DOMAIN sim_resp.body = {"error"}
        /\ legs = <<>>
        /\ total_dist_nm = 0 /\ total_hours = 0 /\ total_fuel = 0
        /\ current_time = 0

\* C11 happens: an unknown ship with waypoints enough for two legs is refused
C11_UnknownShipRefused ==
    /\ UnknownShipRequested
    /\ Len(sim_req.waypoints) = 3
    /\ sim_req.startTimeOk /\ sim_req.laycan.ok
    /\ sim_pc = "error"

FewWaypointsAnswered ==
    /\ sim_pc \in {"done", "error"}
    /\ sim_req.shipType \in DOMAIN SIM_SHIP_TYPES
    /\ sim_req.startTimeOk
    /\ sim_req.laycan.ok
    /\ Len(sim_req.waypoints) <= 1

\* C12: a request with a known ship type, a well-formed start time and laycan
\* end and 0 or 1 waypoints succeeds with an empty leg list, zero distance,
\* hours and fuel, three zero costs, no fuel stop and an ETA equal to the
\* start time.
C12_FewWaypointsZeroTotals ==
    FewWaypointsAnswered =>
        /\ sim_pc = "done"
        /\ sim_resp.code = 200
        /\ sim_resp.body.legs = <<>>
        /\ sim_resp.body.total.distance_nm = 0
        /\ sim_resp.body.total.voyage_hours = 0
        /\ sim_resp.body.total.fuel_consumption_mt = 0
        /\ sim_resp.body.total.costs.bunker_cost_usd = 0
        /\ sim_resp.body.total.costs.co2_cost_usd = 0
        /\ sim_resp.body.total.costs.total_voyage_cost_usd = 0
        /\ sim_resp.body.total.fuel_stops = <<>>
        /\ sim_resp.body.total.eta = 0

\* C12 happens: a single waypoint is answered with a result
C12_OneWaypointAnswered ==
    /\ FewWaypointsAnswered
    /\ Len(sim_req.waypoints) = 1
    /\ sim_pc = "done"
    /\ sim_resp.body.legs = <<>>

---------------------------------------------------------------------------
(* Further properties of the route planner (SpecPlan) *)

\* C13: the reported weather_factor (in hundredths) is 0.95 for a
\* weather_optimized request whatever the month; otherwise 1.15 for departure
\* months 11, 12, 1, 2, 3, 1.10 for months 6..9 and 1.0 for months 4, 5, 10.
C13_WeatherFactorByMonth ==
    PlanSucceeded =>
        LET wf == plan.body.fuel_analysis.weather_factor
            m == plan.req.month
        IN  /\ plan.req.weather_optimized => wf = 95
            /\ ~plan.req.weather_optimized /\ m \in {11, 12, 1, 2, 3} => wf = 115
            /\ ~plan.req.weather_optimized /\ m \in {6, 7, 8, 9} => wf = 110
            /\ ~plan.req.weather_optimized /\ m \in {4, 5, 10} => wf = 100

\* C13 happens: an October departure without weather routing reports 1.0
C13_OctoberIsCalm ==
    /\ PlanSucceeded
    /\ ~plan.req.weather_optimized
    /\ plan.req.month = 10
    /\ plan.body.fuel_analysis.weather_factor = 100

\* the handler's unrounded total_cost of the answered request
PlanTotal == PlanTerms(plan.req).total_cost

SafetyFactor ==
    IF plan.body.risk_assessment.overall_risk = "HIGH" THEN 112 ELSE 108

\* a reported cost is round(total_cost * pct / 100) of the unrounded total,
\* and so within half a dollar plus half the factor of pct / 100 times the
\* reported total_cost
CostIsShareOfTotal(cost, pct) ==
    /\ cost \in {MoneyRoundPct(PlanTotal, pct, TRUE), MoneyRoundPct(PlanTotal, pct, FALSE)}
    /\ Abs(200 * cost - 2 * pct * plan.body.cost_breakdown.total_cost) <= 100 + pct

\* C14: every successful plan lists first a Safety Route whose cost is
\* total_cost x 1.12 when overall_risk is HIGH and x 1.08 otherwise (rounded to
\* the dollar), days = voyage_days + 2, risk LOW; a Weather Optimized
\* alternate (total_cost x 0.95 rounded, voyage_days - 1, risk MEDIUM) follows
\* exactly when the request was not weather_optimized: two alternates then,
\* one otherwise.
C14_AlternateRoutes ==
    PlanSucceeded =>
        LET alts == plan.body.alternate_routes
            days == plan.body.route_summary.voyage_days
        IN  /\ Len(alts) = IF plan.req.weather_optimized THEN 1 ELSE 2
            /\ alts[1].name = "Safety Route"
            /\ CostIsShareOfTotal(alts[1].cost, SafetyFactor)
            /\ alts[1].days = days + 2
            /\ alts[1].risk_level = "LOW"
            /\ ~plan.req.weather_optimized =>
                  /\ alts[2].name = "Weather Optimized"
                  /\ CostIsShareOfTotal(alts[2].cost, 95)
                  /\ alts[2].days = days - 1
                  /\ alts[2].risk_level = "MEDIUM"

\* C14 happens: a HIGH risk plan without weather routing lists both alternates
C14_HighRiskTwoAlternates ==
    /\ PlanSucceeded
    /\ plan.body.risk_assessment.overall_risk = "HIGH"
    /\ ~plan.req.weather_optimized
    /\ Len(plan.body.alternate_routes) = 2
    /\ plan.body.alternate_routes[1].cost > plan.body.cost_breakdown.total_cost
    /\ plan.body.alternate_routes[2].cost < plan.body.cost_breakdown.total_cost

\* routed distance of the answered request, in 1e-4 nm
PlanDistance ==
    calculate_great_circle_distance(plan.req.origin, plan.req.destination) * 115

PlanDaily ==
    SHIP_TYPES[plan.req.ship_type].fuel_rate_tons_per_day
        * SHIP_TYPES[plan.req.ship_type].fuel_efficiency_x100

\* the routed distance exceeds (bunker_on_board / daily_consumption) x 24 x 14
BeyondRange ==
    LET q == (plan.req.bunker_on_board * 24 * 14 * 100) \div PlanDaily
        r == (plan.req.bunker_on_board * 24 * 14 * 100) % PlanDaily
        dq == PlanDistance \div 10000
        dr == PlanDistance % 10000
    IN  dq > q \/ (dq = q /\ dr * PlanDaily > r * 10000)

LongRoute == PlanDistance > 7000 * 10000

\* C19: fuel_stops holds exactly one stop, Fujairah with 800 tons at 645 per
\* ton, when the routed distance exceeds both the range (bunker_on_board /
\* daily_consumption) x 24 x 14 nm and 7000 nm, and is empty otherwise;
\* fuel_stops_required is the length of the list and never more than 1.
C19_FuelStopsOnLongRoutes ==
    PlanSucceeded =>
        LET stops == plan.body.fuel_analysis.fuel_stops
        IN  /\ Len(stops) = IF BeyondRange /\ LongRoute THEN 1 ELSE 0
            /\ plan.body.fuel_analysis.fuel_stops_required = Len(stops)
            /\ \A i \in DOMAIN stops :
                  /\ stops[i].port_name = "Fujairah"
                  /\ stops[i].fuel_needed_tons = 800
                  /\ stops[i].fuel_price_per_ton = 645

\* C19 happens: a long route beyond the range gets the Fujairah stop
C19_StopAtFujairah ==
    /\ PlanSucceeded
    /\ BeyondRange /\ LongRoute
    /\ plan.body.fuel_analysis.fuel_stops_required = 1
    /\ plan.body.fuel_analysis.fuel_stops[1].port_name = "Fujairah"

\* C19 also happens without a stop: beyond the range but not long, and long
\* but within the range
C19_NoStopCases ==
    /\ PlanSucceeded
    /\ plan.body.fuel_analysis.fuel_stops = <<>>
    /\ \/ BeyondRange /\ ~LongRoute
       \/ LongRoute /\ ~BeyondRange


\* the Port Congestion findings of the answered plan
CongestionFindings ==
    LET risks == plan.body.risk_assessment.individual_risks
    IN  {i \in DOMAIN risks : risks[i].type = "Port Congestion"}

\* C17: for every pair of configured ports the risk assessment holds one Port
\* Congestion finding of level LOW exactly when the origin's name or the
\* destination's name is one of Singapore, Shanghai, Rotterdam, Los Angeles,
\* and the finding names the actual origin and destination.
C17_CongestionByPortName ==
    PlanSucceeded =>
        LET risks == plan.body.risk_assessment.individual_risks
            busy == {"Singapore", "Shanghai", "Rotterdam", "Los Angeles"}
        IN  /\ Cardinality(CongestionFindings) =
                  IF plan.req.origin \in busy \/ plan.req.destination \in busy
                  THEN 1 ELSE 0
            /\ \A i \in CongestionFindings :
                  /\ risks[i].level = "LOW"
                  /\ risks[i].ports = <<plan.req.origin, plan.req.destination>>


---------------------------------------------------------------------------
(* Recommendations of the risk assessor (SpecRisk) *)

\* the finding types whose fixed list holds the given recommendation
TypesRecommending(entry) ==
    IF entry \in {"Follow BMP5 guidelines for piracy prevention",
                  "Increase watch vigilance in high-risk areas",
                  "Consider naval escort if available"}
    THEN {"Piracy Risk"}
    ELSE IF entry \in {"Plan flexible departure window",
                       "Increase fuel reserves for weather delays",
                       "Monitor tropical weather forecasts"}
    THEN {"Seasonal Weather"}
    ELSE IF entry \in {"Confirm berth availability before arrival",
                       "Plan for potential anchor waiting time"}
    THEN {"Port Congestion"}
    ELSE {}

\* C20: the recommendations of every risk assessment hold no entry twice and
\* always hold the baseline "Monitor weather updates every 6 hours", also
\* when there is no finding; every other entry belongs to the fixed list of a
\* finding type that is present, so several findings of one type contribute
\* their recommendations once.
C20_RecommendationsDeduplicated ==
    RiskAssessed =>
        LET recs == risk.result.recommendations
            findings == risk.result.individual_risks
        IN  /\ \A e \in BagToSet(recs) : CopiesIn(e, recs) = 1
            /\ CopiesIn("Monitor weather updates every 6 hours", recs) = 1
            /\ \A e \in BagToSet(recs) \ {"Monitor weather updates every 6 hours"} :
                  \E i \in DOMAIN findings : findings[i].type \in TypesRecommending(e)

\* C20 happens: two piracy findings, their three recommendations listed once
C20_TwoPiracyFindingsOnce ==
    /\ RiskAssessed
    /\ PiracyCount(risk.result.individual_risks, {"HIGH", "MEDIUM", "LOW"}) = 2
    /\ CopiesIn("Consider naval escort if available", risk.result.recommendations) = 1
    /\ BagCardinality(risk.result.recommendations) >= 4

\* C20 happens without findings: the baseline alone
C20_BaselineAlone ==
    /\ RiskAssessed
    /\ risk.result.individual_risks = <<>>
    /\ BagToSet(risk.result.recommendations) = {"Monitor weather updates every 6 hours"}


---------------------------------------------------------------------------
(* Costs and fuel stop of the voyage simulator *)

\* C18: in every simulation result the reported total_voyage_cost_usd is the
\* reported bunker_cost_usd plus the reported co2_cost_usd.
C18_TotalCostIsSumOfReported ==
    SimDone =>
        sim_resp.body.total.costs.total_voyage_cost_usd =
            sim_resp.body.total.costs.bunker_cost_usd
                + sim_resp.body.total.costs.co2_cost_usd


FuelStopsCalled == direct.fn = "fuel_stops"

\* the catalog ports no dearer than any other
LowestPricedPorts ==
    {p \in DOMAIN BUNKERING_PORTS :
        \A m \in DOMAIN BUNKERING_PORTS :
            BUNKERING_PORTS[p].bunker_price <= BUNKERING_PORTS[m].bunker_price}

\* C15: the result holds exactly one fuel stop when total fuel is strictly
\* greater than the ship's fuel_capacity_tons and none otherwise, a total equal
\* to the capacity included; the stop names the catalog port of lowest
\* bunker_price, and its fuel_needed_tons (reported to two decimals) is
\* total_fuel - capacity + 500.
C15_OneStopAboveCapacity ==
    FuelStopsCalled =>
        LET stops == direct.result
            capacity_kg == SIM_SHIP_TYPES[direct.ship].fuel_capacity_tons * 1000
        IN  /\ Len(stops) = IF direct.total_fuel_kg > capacity_kg THEN 1 ELSE 0
            /\ \A i \in DOMAIN stops :
                  /\ stops[i].port_name \in LowestPricedPorts
                  /\ Abs(stops[i].fuel_needed_tons * 10
                         - (direct.total_fuel_kg - capacity_kg + 500 * 1000)) <= 5

\* C15 happens: one kilogram above the capacity, one stop at the cheapest port
C15_JustAboveCapacity ==
    /\ FuelStopsCalled
    /\ direct.total_fuel_kg = SIM_SHIP_TYPES[direct.ship].fuel_capacity_tons * 1000 + 1
    /\ Len(direct.result) = 1
    /\ direct.result[1].port_name = "Fujairah"
    /\ direct.result[1].fuel_needed_tons = 500 * 100

\* C15 happens: a total equal to the capacity needs no stop
C15_AtCapacityNoStop ==
    /\ FuelStopsCalled
    /\ direct.total_fuel_kg = SIM_SHIP_TYPES[direct.ship].fuel_capacity_tons * 1000
    /\ direct.result = <<>>

EcaCalled == direct.fn = "calculate_eca_compliance"

\* the point lies in the box of the named ECA zone, edges included
InsideEca(point, zone) ==
    LET b == ECA_ZONES[zone].bounds
    IN  /\ b.lat_min <= point.lat /\ point.lat <= b.lat_max
        /\ b.lng_min <= point.lng /\ point.lng <= b.lng_max

\* C16: for every origin and destination, eca_zones_crossed lists exactly the
\* ECA zones whose box contains the origin or the destination, edges included
\* and each zone at most once, and compliance_costs is 15000 times the length
\* of the list.
C16_EcaZonesOfEndpoints ==
    EcaCalled =>
        LET crossed == direct.result.eca_zones_crossed
        IN  /\ {crossed[i] : i \in DOMAIN crossed} =
                  {z \in DOMAIN ECA_ZONES :
                      InsideEca(direct.origin, z) \/ InsideEca(direct.dest, z)}
            /\ \A i, j \in DOMAIN crossed : crossed[i] = crossed[j] => i = j
            /\ direct.result.compliance_costs = 15000 * Len(crossed)

\* C16 happens: both endpoints on edges, the origin in two zones at once
C16_EdgeAndOverlap ==
    /\ EcaCalled
    /\ direct.origin = [lat |-> 5350000, lng |-> 1000000]
    /\ direct.dest = [lat |-> 2500000, lng |-> -13000000]
    /\ Len(direct.result.eca_zones_crossed) = 3
    /\ direct.result.compliance_costs = 45000


---------------------------------------------------------------------------
(* Order of validation and accumulation in the voyage simulator (SpecSim) *)

\* C23: a simulation request that is rejected for an invalid input (ship
\* type, start time, laycan window) never entered the leg loop: no leg was
\* computed and no total accumulated.
C23_RejectedBeforeAnyLeg ==
    sim_pc = "error" =>
        /\ legs = <<>>
        /\ total_dist_nm = 0
        /\ total_hours = 0
        /\ total_fuel = 0


\* the sum of one reported figure over the legs of the response
RECURSIVE ReportedSum(_, _)
ReportedSum(the_legs, field) ==
    IF the_legs = <<>> THEN 0
    ELSE ReportedSum(SubSeq(the_legs, 1, Len(the_legs) - 1), field)
             + the_legs[Len(the_legs)].reported[field]

\* C24: for n >= 2 waypoints the simulation returns n - 1 legs with indices
\* 0..n-2 in waypoint order, leg i from waypoint i to waypoint i + 1, and the
\* returned total distance, hours and fuel are the sums over the legs of the
\* returned per-leg distance, hours and fuel.
C24_LegsFoldIntoTotals ==
    SimDone /\ Len(sim_req.waypoints) >= 2 =>
        LET n == Len(sim_req.waypoints)
            out == sim_resp.body.legs
            total == sim_resp.body.total.reported
        IN  /\ Len(out) = n - 1
            /\ \A i \in DOMAIN out :
                  /\ out[i].index = i - 1
                  /\ out[i].from = sim_req.waypoints[i]
                  /\ out[i].to = sim_req.waypoints[i + 1]
            /\ total.distance_nm = ReportedSum(out, "distance_nm")
            /\ total.hours = ReportedSum(out, "hours")
            /\ total.fuel_consumption_mt = ReportedSum(out, "fuel_consumption_mt")


\* the positions of the adjustments addressed to leg i (legs counted from 0)
AdjustmentsFor(i) ==
    {k \in DOMAIN sim_req.speedAdjustments :
        sim_req.speedAdjustments[k].legIndex = i}

\* C25: the commanded speed of leg i is the newStw of the first speed
\* adjustment whose legIndex is i when there is one, and the base commanded
\* speed otherwise; an adjustment for one leg leaves the commanded speed of
\* every other leg at its own value, so the override is not carried forward.
C25_OverrideOnItsLegOnly ==
    sim_pc # "idle" =>
        \A n \in DOMAIN legs :
            LET mine == AdjustmentsFor(n - 1)
            IN  legs[n].stw_commanded =
                    IF mine = {} THEN sim_req.stw
                    ELSE sim_req.speedAdjustments[
                             CHOOSE k \in mine : \A m \in mine : k <= m].newStw

\* C25 happens: the first leg overridden, the second back at the base speed
C25_SecondLegAtBaseSpeed ==
    /\ sim_pc = "done"
    /\ Len(legs) = 2
    /\ AdjustmentsFor(0) # {} /\ AdjustmentsFor(1) = {}
    /\ legs[1].stw_commanded = 20
    /\ legs[2].stw_commanded = sim_req.stw
    /\ sim_req.stw = 14

\* C25 happens: of two adjustments for one leg the first one counts
C25_FirstOfTwoAdjustments ==
    /\ sim_pc = "done"
    /\ Len(legs) = 2
    /\ Cardinality(AdjustmentsFor(1)) = 2
    /\ legs[2].stw_commanded = -3
    /\ legs[1].stw_commanded = sim_req.stw


---------------------------------------------------------------------------
(* Canal surcharge, waypoints and days of the route planner (SpecPlan) *)

\* C26: for every pair of configured ports the plan's canal_cost is 0 and its
\* canal_name is null; the 222865 Suez surcharge is never applied.
C26_NoCanalSurcharge ==
    PlanSucceeded =>
        /\ plan.body.cost_breakdown.canal_cost = 0
        /\ plan.body.cost_breakdown.canal_name = "None"

\* C26 happens: a plan between two gateway ports, without surcharge
C26_GatewayRouteWithoutSurcharge ==
    /\ PlanSucceeded
    /\ plan.req.origin = "Singapore"
    /\ plan.req.destination = "Rotterdam"
    /\ plan.body.cost_breakdown.canal_cost = 0
    /\ plan.body.cost_breakdown.canal_name = "None"


\* the waypoints of the answered plan's main route
MainRoute == plan.body.main_route.coordinates

\* eleven waypoints numbered 0..10, the first at the origin, each one step of
\* (destination - origin) / 10 after the one before (coordinates of the
\* waypoints in 1e-6 degree, of the ports in 1e-5 degree)
EvenlySpaced ==
    LET o == MAJOR_PORTS[plan.req.origin]
        d == MAJOR_PORTS[plan.req.destination]
    IN  /\ Len(MainRoute) = 11
        /\ \A k \in 1..11 : MainRoute[k].waypoint_id = k - 1
        /\ MainRoute[1].lat = o.lat * 10 /\ MainRoute[1].lng = o.lng * 10
        /\ ~MainRoute[1].inexact
        /\ \A k \in 1..10 :
              /\ MainRoute[k + 1].lat - MainRoute[k].lat = d.lat - o.lat
              /\ MainRoute[k + 1].lng - MainRoute[k].lng = d.lng - o.lng

C28_DaysNeverNegative ==
    PlanSucceeded =>
        /\ plan.body.main_route.days >= 0
        /\ \A i \in DOMAIN plan.body.alternate_routes :
              plan.body.alternate_routes[i].days >= 0


---------------------------------------------------------------------------
(* The two great-circle distance functions (SpecDirect) *)

DistancesCalled == direct.fn = "distance"

\* C21: both distance functions, the route planner's and the simulator's,
\* return 0 for two identical points, return the same value when the two
\* points are swapped, and never fail for a pair of valid coordinates.
C21_DistanceZeroSymmetricTotal ==
    DistancesCalled =>
        /\ direct.planner # ValueError
        /\ direct.simulator # ValueError
        /\ direct.a = direct.b => direct.planner = 0 /\ direct.simulator = 0
        /\ direct.planner = direct.planner_swapped
        /\ direct.simulator = direct.simulator_swapped


---------------------------------------------------------------------------
(* Properties of the alert store (SpecAlerts, SpecThreads) *)

\* C29: after any sequence of acknowledge requests the file still holds the
\* header and the same alerts in the same order with the same id, message and
\* severity, and an alert is acknowledged exactly when it was acknowledged in
\* the initial file or its id was named by one of the requests: flags are
\* never reset, no alert is added for an unknown id, and a repeated request
\* changes nothing.
C29_AcknowledgedExactlyWhenRequested ==
    LET Requested == UNION {ack_log[k] : k \in DOMAIN ack_log}
    IN  /\ Len(alerts_csv) = Len(SampleAlerts)
        /\ alerts_csv[1] = SampleAlerts[1]
        /\ \A k \in 2..Len(SampleAlerts) :
              /\ \A j \in 1..3 : alerts_csv[k][j] = SampleAlerts[k][j]
              /\ alerts_csv[k][4] =
                    IF \/ SampleAlerts[k][4] = "1"
                       \/ ParseInt(SampleAlerts[k][1]) \in Requested
                    THEN "1" ELSE "0"

\* C29 witness: the same request, naming alert 1 and an unknown id, was answered
\* twice; alert 1 is acknowledged and alert 2 is not.
C29_RepeatedRequest ==
    /\ Len(ack_log) = 2
    /\ ack_log[1] = {1, 4}
    /\ ack_log[2] = {1, 4}
    /\ alerts_csv[2][4] = "1"
    /\ alerts_csv[3][4] = "0"

\* C30: once two acknowledge requests handled in two threads have both been
\* answered, every alert named by either of them is acknowledged in the file.
C30_NoAcknowledgementLost ==
    (\A r \in Requests : ack[r].pc = "done") =>
        \A k \in 2..Len(alerts_csv) :
            ParseInt(alerts_csv[k][1]) \in (ack["A"].ids \cup ack["B"].ids) =>
                alerts_csv[k][4] = "1"


---------------------------------------------------------------------------
(* Properties of the 10-day forecast (SpecDirect) *)

\* C22: a successful forecast response has exactly 10 days: first the days
\* aggregated from the API's entries in date order (at most 5 of them in the
\* src/BACKEND variant), then estimated days only; the src/BACKEND response
\* reports real_days and estimated_days adding up to 10; with no entry from
\* the API the call answers with an error.
C22_TenDaysRealThenEstimated ==
    direct.fn = "forecast10" =>
        LET r == direct.response
            first_date == direct.first_slot \div 8
            api_dates == (direct.first_slot + direct.entries - 1) \div 8 - first_date + 1
            cap == IF direct.variant = "BACKEND" THEN 5 ELSE 10
            n == IF api_dates < cap THEN api_dates ELSE cap
        IN  /\ (r.code = 200) = (direct.entries > 0)
            /\ r.code = 200 =>
                  /\ Len(r.days) = 10
                  /\ \A i \in 1..10 :
                        /\ r.days[i].source = IF i <= n THEN "api-data" ELSE "estimated"
                        /\ i <= n => r.days[i].date = first_date + i - 1
                  /\ direct.variant = "BACKEND" =>
                        /\ r.data_info.real_days = n
                        /\ r.data_info.real_days + r.data_info.estimated_days = 10

\* C22 witness: the src/BACKEND variant answers a full API list that starts in
\* mid-day and so spans 6 dates: 5 real days, 5 estimated.
C22_SixDatesFiveRealDays ==
    /\ direct.fn = "forecast10"
    /\ direct.variant = "BACKEND"
    /\ direct.entries = 40
    /\ direct.first_slot = 3
    /\ direct.response.code = 200
    /\ direct.response.data_info.real_days = 5
    /\ direct.response.days[6].source = "estimated"


\* C22 as stated: the same, with data_info and its two counts adding up to 10
\* in every successful response, whichever variant answered.
C22_DataInfoInEveryResponse ==
    (direct.fn = "forecast10" /\ direct.response.code = 200) =>
        /\ Len(direct.response.days) = 10
        /\ "data_info" \in DOMAIN direct.response
        /\ direct.response.data_info.real_days
              + direct.response.data_info.estimated_days = 10

=============================================================================
